---- MODULE Spec2Model ----
(***************************************************************************)
(* Model of the ECP5 JTAG-to-SPI flash programming applet                  *)
(* (software/glasgow/applet/program_ecp5/__init__.py).                     *)
(*                                                                         *)
(* The applet's coroutines are modelled as one sequential control flow:    *)
(* pc is the position in the running coroutine and stack holds the return  *)
(* positions of its callers.  Every await of an SPI command is one step.   *)
(* The SPI-NOR chip behind the passthrough is the environment: flash is    *)
(* its memory, sr the non-volatile bits of its status register, and the    *)
(* volatile WIP/WEL bits of a status read are chosen nondeterministically. *)
(***************************************************************************)
EXTENDS Integers, Sequences, FiniteSets, TLC

VARIABLES
    op,        \* args.operation of the session
    args,      \* parsed command line arguments
    pc,        \* position of the running coroutine
    stack,     \* return positions of the calling coroutines
    p,         \* locals of program()
    e,         \* locals of erase_program()
    r,         \* locals of _read_command()
    w,         \* locals and observations of write_in_progress() and its caller
    it,        \* locals of interact()
    flash,     \* chip memory: address -> byte
    sr,        \* chip status register, bits 2..7
    trace,     \* SPI commands issued (status reads excepted) and callbacks made
    outcome,   \* how the session ended
    c_in,      \* codec: the hexadecimal nibble string given
    c_kind,    \* codec: which encoder produced c_bits
    c_bits,    \* codec: the bit sequence shifted
    c_out,     \* codec: the bytes decoded from c_bits
    lower,     \* calls made on the JTAG transport (self.lower), in order
    jt,        \* locals of enter_spi_mode() and of _command()
    spi,       \* passthrough entries completed, opcode of the last SPI command
    g,         \* the I2C register file: its signals and registers
    dev        \* the device object: locals of its methods, USB transfers made

vars == <<op, args, pc, stack, p, e, r, w, it, flash, sr, trace, outcome,
          c_in, c_kind, c_bits, c_out, lower, jt, spi, g, dev>>

codecVars == <<c_in, c_kind, c_bits, c_out>>
chipVars  == <<flash, sr>>
jtagVars  == <<lower, jt>>

----------------------------------------------------------------------------
(* Bounds of the model *)

FlashSize == 4
MaxData   == 3
MaxPage   == 2
MaxSector == 3
MaxNibbles == 3

----------------------------------------------------------------------------
(* Program constants *)

BIT_WIP  == 1
BIT_WEL  == 2
MSK_PROT == 60
BIT_CP   == 64
BIT_ERR  == 128

CMD_WRITE_STATUS == 1
CMD_PAGE_PROGRAM == 2
CMD_READ         == 3
CMD_WRITE_ENABLE == 6
CMD_SECTOR_ERASE == 32
CMD_READ_STATUS  == 5
CMD_FAST_READ    == 11
CMD_BLOCK_ERASE  == 82
CMD_CHIP_ERASE   == 96
CMD_READ_MFG_ID  == 144
CMD_WAKEUP       == 171
DEFAULT_CHUNK    == 255

Erased  == 255
Newline == 10

\* Byte values the model draws data and flash contents from: the erased value,
\* the byte Python's "$" treats specially, and an ordinary data byte.
ByteValues == {Newline, 170, Erased}

----------------------------------------------------------------------------
(* Arithmetic and sequence helpers *)

Min(a, b) == IF a <= b THEN a ELSE b

RECURSIVE Pow2(_)
Pow2(n) == IF n = 0 THEN 1 ELSE 2 * Pow2(n - 1)

\* Python's a & b for non-negative integers.
RECURSIVE BitAnd(_, _)
BitAnd(a, b) ==
    IF a = 0 \/ b = 0 THEN 0
    ELSE (a % 2) * (b % 2) + 2 * BitAnd(a \div 2, b \div 2)

\* Python's a | b for non-negative integers.
BitOr(a, b) == a + b - BitAnd(a, b)

\* Python's a & ~m for non-negative a and m: the bits of a that m does not have.
BitAndNot(a, m) == a - BitAnd(a, m)

\* data[:n] for n >= 0
Take(s, n) == SubSeq(s, 1, Min(n, Len(s)))

\* data[n:] for n >= 0
Drop(s, n) == SubSeq(s, Min(n, Len(s)) + 1, Len(s))

SeqsUpTo(S, n) == UNION {[1..k -> S] : k \in 0..n}

----------------------------------------------------------------------------
(* Bit Codec.  A nibble string is a sequence of hexadecimal digits 0..15, a   *)
(* bitarray a sequence of bits 0..1 in the order they are shifted.           *)

\* Mutant: the zero nibbles are added on the right (str.ljust).
LJust(nibbles, width) ==
    nibbles \o [i \in 1..(width - Len(nibbles)) |-> 0]

\* input_nibbles.rjust(width, "0")
RJust(nibbles, width) ==
    [i \in 1..(width - Len(nibbles)) |-> 0] \o nibbles

\* bytes.fromhex() of an even number of nibbles
FromHex(nibbles) ==
    [k \in 1..(Len(nibbles) \div 2) |->
        nibbles[2 * k - 1] * 16 + nibbles[2 * k]]

\* The first two lines of _hex_to_bitarray() and _bitarray().
HexBytes(input_nibbles) ==
    LET byte_len == (Len(input_nibbles) + 1) \div 2 IN
    FromHex(RJust(input_nibbles, byte_len * 2))

\* ''.join('{:02x}'.format(x) for x in ...)
FormatHex(bytes) ==
    [i \in 1..(2 * Len(bytes)) |->
        IF i % 2 = 1 THEN bytes[(i + 1) \div 2] \div 16
        ELSE bytes[(i + 1) \div 2] % 16]

\* bitarray(endian="little").frombytes(): each byte gives its bits, lowest first
FromBytes(bytes) ==
    [j \in 1..(8 * Len(bytes)) |->
        (bytes[((j - 1) \div 8) + 1] \div Pow2((j - 1) % 8)) % 2]

\* bitarray.reverse(): the order of all bits is reversed
Reverse(bits) == [j \in 1..Len(bits) |-> bits[Len(bits) + 1 - j]]

\* bitarray.bytereverse(): the order of the bits of each byte is reversed
ByteReverse(bits) ==
    [j \in 1..Len(bits) |-> bits[8 * ((j - 1) \div 8) + 8 - ((j - 1) % 8)]]

\* bitarray(endian="little").tobytes()
ToBytes(bits) ==
    LET RECURSIVE Value(_, _)
        Value(k, i) == IF i > 7 THEN 0
                       ELSE bits[8 * (k - 1) + i + 1] * Pow2(i) + Value(k, i + 1)
    IN  [k \in 1..(Len(bits) \div 8) |-> Value(k, 0)]

\* _hex_to_bitarray(input_nibbles)
HexToBitarray(input_nibbles) ==
    ByteReverse(Reverse(FromBytes(HexBytes(input_nibbles))))

\* _bitarray(input_nibbles)
Bitarray(input_nibbles) == ByteReverse(FromBytes(HexBytes(input_nibbles)))

\* The end of _command(): value.reverse(); value.bytereverse(); value.tobytes()
CommandDecode(value) == ToBytes(ByteReverse(Reverse(value)))

----------------------------------------------------------------------------
(* The trace: what the transport and the observer callback see *)

\* One call of _command(cmd, arg, dummy, ret).
Cmd(cmd, arg, dummy, ret) ==
    [k |-> "cmd", cmd |-> cmd, arg |-> arg, dummy |-> dummy, ret |-> ret,
     done |-> 0, total |-> 0, status |-> "", at |-> 0]

\* One call of the observer callback(done, total, status); at is the address
\* the status text names.
Cb(done, total, status, at) ==
    [k |-> "cb", cmd |-> 0, arg |-> <<>>, dummy |-> 0, ret |-> 0,
     done |-> done, total |-> total, status |-> status, at |-> at]

FormatAddr(addr) ==
    <<(addr \div 65536) % 256, (addr \div 256) % 256, addr % 256>>

\* The address and the payload a command's argument bytes carry.
AddrOf(c) == c.arg[1] * 65536 + c.arg[2] * 256 + c.arg[3]
DataOf(c) == Drop(c.arg, 3)

----------------------------------------------------------------------------
(* The chip (environment) *)

\* The byte a status read returns: the stored bits 2..7 and the volatile bits.
StatusByte(wel, wip) == sr + BIT_WEL * wel + BIT_WIP * wip

StatusReads == {StatusByte(wel, wip) : wel \in {0, 1}, wip \in {0, 1}}

FlashRead(a) == IF a \in DOMAIN flash THEN flash[a] ELSE Erased

\* PAGE PROGRAM clears bits: each addressed byte becomes old AND new.
FlashProgram(f, address, data) ==
    [a \in DOMAIN f |->
        IF a >= address /\ a < address + Len(data)
        THEN BitAnd(f[a], data[a - address + 1])
        ELSE f[a]]

\* SECTOR ERASE sets the sector holding the address to the erased value.
FlashSectorErase(f, address, sector_size) ==
    LET base == address - (address % sector_size) IN
    [a \in DOMAIN f |->
        IF a >= base /\ a < base + sector_size THEN Erased ELSE f[a]]

----------------------------------------------------------------------------
(* Coroutine plumbing *)

Call(target, continuation) ==
    /\ pc' = target
    /\ stack' = <<continuation>> \o stack

Return ==
    /\ pc' = Head(stack)
    /\ stack' = Tail(stack)

NoProgram == [address |-> 0, data |-> <<>>, done |-> 0, total |-> 0,
              chunk |-> <<>>, page_size |-> 1, nested |-> FALSE]
NoErase   == [address |-> 0, data |-> <<>>, done |-> 0, total |-> 0,
              chunk |-> <<>>, sector_start |-> 0, sector_data |-> <<>>,
              sectors |-> <<>>]
NoRead    == [address |-> 0, length |-> 0, chunk_size |-> <<>>, data |-> <<>>,
              cmd |-> 0, dummy |-> 0, observed |-> FALSE]
NoWip     == [command |-> "", address |-> 0, data |-> <<>>,
              n |-> 0, first |-> 0, second |-> 0, raised |-> FALSE,
              returned |-> <<>>]
NoInteract == [read |-> <<>>, status |-> 0, warned |-> FALSE,
               flash_data |-> <<>>, report |-> <<>>, shown |-> <<>>,
               todo |-> <<>>]
NoLocals  == [i |-> 0, frequency |-> 1, idcode |-> <<>>, cmd |-> 0,
              arg |-> <<>>, dummy |-> 0, ret |-> 0, value |-> <<>>,
              result |-> <<>>]
NoDevice  == [one |-> FALSE, req |-> 0, ret |-> 0, chars |-> <<>>,
              mask |-> 0, i |-> 0,
              addr |-> 0, length |-> 0, offset |-> 0,
              chunk_addr |-> 0, chunk_length |-> 0,
              raw_idx |-> 0, raw_addr |-> 0, raw_length |-> 0,
              raw_offset |-> 0, usb |-> <<>>]
NoRegisters == [reg_count |-> 0, kinds |-> <<>>, latch_addr |-> 0,
                address |-> 0, regs |-> <<>>, start |-> 0, write |-> 0,
                read |-> 0, data_i |-> 0, ack_o |-> 0, data_o |-> 0,
                after_start |-> FALSE, selected |-> -1]

\* Every _command() call leaves its opcode as the last SPI command sent.
Sent(cmd) == spi' = [spi EXCEPT !.last = cmd]

----------------------------------------------------------------------------
(* Flash Command Layer *)

\* write_enable()
WriteEnable ==
    /\ pc = "write_enable"
    /\ trace' = Append(trace, Cmd(CMD_WRITE_ENABLE, <<>>, 0, 0))
    /\ Sent(CMD_WRITE_ENABLE)
    /\ Return
    /\ UNCHANGED <<op, args, p, e, r, w, it, flash, sr, outcome, codecVars, jtagVars, g, dev>>

\* page_program(address, data): the opcode, then the completion poll.
PageProgram ==
    /\ pc = "page_program"
    /\ trace' = Append(trace,
                  Cmd(CMD_PAGE_PROGRAM, FormatAddr(w.address) \o w.data, 0, 0))
    /\ flash' = FlashProgram(flash, w.address, w.data)
    /\ Sent(CMD_PAGE_PROGRAM)
    /\ w' = [w EXCEPT !.command = "PAGE PROGRAM"]
    /\ pc' = "wip"
    /\ UNCHANGED <<op, args, stack, p, e, r, it, sr, outcome, codecVars, jtagVars, g, dev>>

\* sector_erase(address): the opcode, then the completion poll.
SectorErase ==
    /\ pc = "sector_erase"
    /\ trace' = Append(trace,
                  Cmd(CMD_SECTOR_ERASE, FormatAddr(w.address), 0, 0))
    /\ flash' = FlashSectorErase(flash, w.address, args.sector_size)
    /\ Sent(CMD_SECTOR_ERASE)
    /\ w' = [w EXCEPT !.command = "SECTOR ERASE"]
    /\ pc' = "wip"
    /\ UNCHANGED <<op, args, stack, p, e, r, it, sr, outcome, codecVars, jtagVars, g, dev>>

\* Mutant: the re-check is made whenever WEL is set.
WelSetOnly(status) == BitAnd(status, BIT_WEL) # 0

\* The test of write_in_progress() on one status byte.
WelSetWipClear(status) ==
    BitAnd(status, BIT_WEL) # 0 /\ ~(BitAnd(status, BIT_WIP) # 0)

\* Mutant: the re-check is read but not tested.
WipRaisesNoRecheck(first, second) == WelSetWipClear(first)

\* The second test of write_in_progress(): whether it raises.
WipRaises(first, second) == WelSetWipClear(first) /\ WelSetWipClear(second)

\* Mutant: the caller loops while the value returned is false.
WipReturnInverted(status) ==
    IF BitAnd(status, BIT_WIP) # 0
    THEN Return
    ELSE pc' = "wip" /\ stack' = stack

\* Mutant: the caller does not loop on the value returned.
WipReturnAlways(status) == Return

\* What the caller's "while await write_in_progress(): pass" does with the
\* value returned for the last status read.
WipReturn(status) ==
    IF BitAnd(status, BIT_WIP) # 0
    THEN pc' = "wip" /\ stack' = stack
    ELSE Return

\* Mutant: the fault is caught and the caller goes on as after a return.
RaiseSwallowed(message) ==
    /\ outcome' = message
    /\ Return

\* raise ProgramECP5Error(message): no coroutine of the applet catches it, the
\* session ends.
Raise(message) ==
    /\ outcome' = message
    /\ pc' = "raised"
    /\ stack' = stack

\* write_in_progress(), first status read.
WipRead1 ==
    /\ pc = "wip"
    /\ \E status \in StatusReads :
         IF WelSetWipClear(status)
         THEN /\ w' = [w EXCEPT !.n = 1, !.first = status, !.second = 0,
                                !.returned = <<>>]
              /\ pc' = "wip_recheck"
              /\ stack' = stack
         ELSE /\ w' = [w EXCEPT !.n = 1, !.first = status, !.second = 0,
                                !.returned = <<BitAnd(status, BIT_WIP) # 0>>]
              /\ WipReturn(status)
    /\ Sent(CMD_READ_STATUS)
    /\ UNCHANGED <<op, args, p, e, r, it, flash, sr, trace, outcome, codecVars, jtagVars, g, dev>>

\* write_in_progress(), the re-check after WEL set and WIP clear.
WipRead2 ==
    /\ pc = "wip_recheck"
    /\ \E status \in StatusReads :
         IF WipRaises(w.first, status)
         THEN /\ w' = [w EXCEPT !.n = 2, !.second = status, !.raised = TRUE]
              /\ Raise(w.command \o " command failed")
         ELSE /\ w' = [w EXCEPT !.n = 2, !.second = status,
                                !.returned = <<BitAnd(status, BIT_WIP) # 0>>]
              /\ outcome' = outcome
              /\ WipReturn(status)
    /\ Sent(CMD_READ_STATUS)
    /\ UNCHANGED <<op, args, p, e, r, it, flash, sr, trace, codecVars, jtagVars, g, dev>>

----------------------------------------------------------------------------
(* Bulk Operation Layer: program() *)

\* Mutant: every chunk is a single byte.
ProgramChunkOneByte(data, address, page_size) == Take(data, 1)

\* Mutant: the chunk is a whole page whatever the start address.
ProgramChunkWholePage(data, address, page_size) == Take(data, page_size)

\* chunk = data[:page_size - address % page_size]
ProgramChunk(data, address, page_size) ==
    Take(data, page_size - (address % page_size))

\* The callback program() was given: the caller's observer, or the lambda of
\* erase_program() that offsets the report by the bytes done before.
ProgramCallback(done, total, status, at) ==
    IF p.nested THEN Cb(e.done + done, e.total, status, at)
    ELSE Cb(done, total, status, at)

\* One turn of the loop of program() up to its write_enable(), or the final
\* callback once no data is left.
ProgramLoop ==
    /\ pc = "program"
    /\ IF Len(p.data) > 0
       THEN LET chunk == ProgramChunk(p.data, p.address, p.page_size) IN
            /\ p' = [p EXCEPT !.chunk = chunk, !.data = Drop(p.data, Len(chunk))]
            /\ trace' = Append(trace,
                 ProgramCallback(p.done, p.total, "programming page", p.address))
            /\ Call("write_enable", "program_page")
       ELSE /\ trace' = Append(trace,
                 ProgramCallback(p.done, p.total, "None", 0))
            /\ p' = p
            /\ Return
    /\ UNCHANGED <<op, args, e, r, w, it, flash, sr, outcome, codecVars, jtagVars, spi, g, dev>>

\* await self.page_program(address, chunk)
ProgramPage ==
    /\ pc = "program_page"
    /\ w' = [w EXCEPT !.address = p.address, !.data = p.chunk]
    /\ Call("page_program", "program_advance")
    /\ UNCHANGED <<op, args, p, e, r, it, flash, sr, trace, outcome, codecVars, jtagVars, spi, g, dev>>

\* Mutant: the address advances and the count of bytes done does not.
ProgramAdvanceAddressOnly ==
    /\ pc = "program_advance"
    /\ p' = [p EXCEPT !.address = p.address + Len(p.chunk)]
    /\ pc' = "program"
    /\ UNCHANGED <<op, args, stack, e, r, w, it, flash, sr, trace, outcome,
                   codecVars, jtagVars, spi, g, dev>>

\* address += len(chunk); done += len(chunk)
ProgramAdvance ==
    /\ pc = "program_advance"
    /\ p' = [p EXCEPT !.address = p.address + Len(p.chunk),
                      !.done = p.done + Len(p.chunk)]
    /\ pc' = "program"
    /\ UNCHANGED <<op, args, stack, e, r, w, it, flash, sr, trace, outcome,
                   codecVars, jtagVars, spi, g, dev>>

----------------------------------------------------------------------------
(* Flash Command Layer: chunked reads *)

\* The bytes the chip returns to a read command of ret bytes.
ReadResponse(c) == [i \in 1..c.ret |-> FlashRead(AddrOf(c) + i - 1)]

\* Mutant: the chunk size given is ignored.
ChunkSizeIgnored(chunk_size) == DEFAULT_CHUNK

\* chunk_size, or 0xff when none is given
ChunkSize(chunk_size) ==
    IF chunk_size = <<>> THEN DEFAULT_CHUNK ELSE chunk_size[1]

\* One turn of the loop of _read_command(), or its return.
ReadLoop ==
    /\ pc = "read"
    /\ IF r.length > Len(r.data)
       THEN LET c == Cmd(r.cmd, FormatAddr(r.address), r.dummy,
                         Min(ChunkSize(r.chunk_size), r.length - Len(r.data)))
                chunk == ReadResponse(c)
            IN  /\ trace' = (IF r.observed
                             THEN Append(trace, Cb(Len(r.data), r.length,
                                                   "reading address", r.address))
                             ELSE trace) \o <<c>>
                /\ r' = [r EXCEPT !.data = r.data \o chunk,
                                  !.address = r.address + Len(chunk)]
                /\ Sent(r.cmd)
                /\ UNCHANGED <<pc, stack>>
       ELSE /\ Return
            /\ UNCHANGED <<r, trace, spi>>
    /\ UNCHANGED <<op, args, p, e, w, it, flash, sr, outcome, codecVars, jtagVars, g, dev>>

----------------------------------------------------------------------------
(* Bulk Operation Layer: erase_program() *)

\* Mutant: the chunk is not cut at the end of the sector.
EraseChunkUncut(data, address, sector_size) == Take(data, sector_size)

\* chunk = data[:sector_size - address % sector_size]
EraseChunk(data, address, sector_size) ==
    Take(data, sector_size - (address % sector_size))

\* sector_start = address & ~(sector_size - 1)
SectorStart(address, sector_size) == BitAndNot(address, sector_size - 1)

\* sector_data[offset:offset + len(chunk)] = chunk
Splice(sector_data, offset, chunk) ==
    Take(sector_data, offset) \o chunk \o Drop(sector_data, offset + Len(chunk))

\* re.match(rb"^\xff*$", sector_data): the bytes are 0xff up to a position
\* that "$" accepts, which is the end of the bytes or a newline that is their
\* last byte.
MatchesAllFF(sector_data) ==
    LET n == Len(sector_data) IN
    IF \A j \in 1..n : sector_data[j] = Erased THEN TRUE
    ELSE /\ sector_data[n] = Newline
         /\ \A j \in 1..(n - 1) : sector_data[j] = Erased

\* One turn of the loop of erase_program() up to the sector image (taken from
\* the chunk, or to be read back), or the final callback once no data is left.
EraseProgramLoop ==
    /\ pc = "erase_program"
    /\ IF Len(e.data) > 0
       THEN LET chunk == EraseChunk(e.data, e.address, args.sector_size)
                sector_start == SectorStart(e.address, args.sector_size)
                whole == /\ e.address % args.sector_size = 0
                         /\ Len(chunk) = args.sector_size
            IN  /\ e' = [e EXCEPT !.chunk = chunk,
                                  !.data = Drop(e.data, Len(chunk)),
                                  !.sector_start = sector_start,
                                  !.sector_data = IF whole THEN chunk ELSE <<>>]
                /\ IF whole
                   THEN /\ pc' = "ep_erase"
                        /\ UNCHANGED <<stack, r>>
                   ELSE /\ r' = [address |-> sector_start,
                                 length |-> args.sector_size,
                                 chunk_size |-> <<>>, data |-> <<>>,
                                 cmd |-> CMD_READ, dummy |-> 0,
                                 observed |-> FALSE]
                        /\ Call("read", "ep_splice")
                /\ trace' = trace
       ELSE /\ trace' = Append(trace, Cb(e.done, e.total, "None", 0))
            /\ Return
            /\ UNCHANGED <<e, r>>
    /\ UNCHANGED <<op, args, p, w, it, flash, sr, outcome, codecVars, jtagVars, spi, g, dev>>

\* The chunk is spliced into the sector read back.
EraseProgramSplice ==
    /\ pc = "ep_splice"
    /\ e' = [e EXCEPT !.sector_data =
                Splice(r.data, e.address % args.sector_size, e.chunk)]
    /\ pc' = "ep_erase"
    /\ UNCHANGED <<op, args, stack, p, r, w, it, flash, sr, trace, outcome,
                   codecVars, jtagVars, spi, g, dev>>

\* The "erasing sector" callback and write_enable().
EraseProgramErase ==
    /\ pc = "ep_erase"
    /\ trace' = Append(trace,
                  Cb(e.done, e.total, "erasing sector", e.sector_start))
    /\ Call("write_enable", "ep_sector_erase")
    /\ UNCHANGED <<op, args, p, e, r, w, it, flash, sr, outcome, codecVars, jtagVars, spi, g, dev>>

\* await self.sector_erase(sector_start)
EraseProgramSectorErase ==
    /\ pc = "ep_sector_erase"
    /\ w' = [w EXCEPT !.address = e.sector_start, !.data = <<>>]
    /\ Call("sector_erase", "ep_program")
    /\ UNCHANGED <<op, args, p, e, r, it, flash, sr, trace, outcome, codecVars, jtagVars, spi, g, dev>>

\* The sector image is programmed unless the pattern matches it.  e.sectors
\* records, per sector handled, the image and whether it was programmed.
EraseProgramProgram ==
    /\ pc = "ep_program"
    /\ LET programmed == ~MatchesAllFF(e.sector_data) IN
       /\ e' = [e EXCEPT !.sectors = Append(e.sectors,
                    [start |-> e.sector_start, address |-> e.address,
                     chunk |-> e.chunk, image |-> e.sector_data,
                     programmed |-> programmed])]
       /\ IF programmed
          THEN /\ p' = [address |-> e.sector_start, data |-> e.sector_data,
                        done |-> 0, total |-> Len(e.sector_data),
                        chunk |-> <<>>, page_size |-> args.page_size,
                        nested |-> TRUE]
               /\ Call("program", "ep_advance")
          ELSE /\ pc' = "ep_advance"
               /\ UNCHANGED <<stack, p>>
    /\ UNCHANGED <<op, args, r, w, it, flash, sr, trace, outcome, codecVars, jtagVars, spi, g, dev>>

\* address += len(chunk); done += len(chunk)
EraseProgramAdvance ==
    /\ pc = "ep_advance"
    /\ e' = [e EXCEPT !.address = e.address + Len(e.chunk),
                      !.done = e.done + Len(e.chunk)]
    /\ pc' = "erase_program"
    /\ UNCHANGED <<op, args, stack, p, r, w, it, flash, sr, trace, outcome,
                   codecVars, jtagVars, spi, g, dev>>

----------------------------------------------------------------------------
(* Flash Command Layer: write_status() *)

\* write_status(status): the opcode, then the completion poll.  The chip
\* stores bits 2..7 of the value written.
WriteStatus ==
    /\ pc = "write_status"
    /\ trace' = Append(trace, Cmd(CMD_WRITE_STATUS, w.data, 0, 0))
    /\ sr' = BitAnd(w.data[1], MSK_PROT + BIT_CP + BIT_ERR)
    /\ Sent(CMD_WRITE_STATUS)
    /\ w' = [w EXCEPT !.command = "WRITE STATUS"]
    /\ pc' = "wip"
    /\ UNCHANGED <<op, args, stack, p, e, r, it, flash, outcome, codecVars, jtagVars, g, dev>>

----------------------------------------------------------------------------
(* The applet: interact() *)

MutatingOperations == {"program-page", "program", "erase-sector", "erase-block",
                       "erase-chip", "erase-program"}

\* The block-protect warning made before a program or erase operation.
InteractProtectionCheck ==
    /\ pc = "interact"
    /\ IF op \in MutatingOperations
       THEN /\ \E status \in StatusReads :
                  it' = [it EXCEPT !.warned = BitAnd(status, MSK_PROT) # 0]
            /\ Sent(CMD_READ_STATUS)
       ELSE UNCHANGED <<it, spi>>
    /\ pc' = "operation"
    /\ UNCHANGED <<op, args, stack, p, e, r, w, flash, sr, trace, outcome,
                   codecVars, jtagVars, g, dev>>

\* args.operation == "program"
InteractProgram ==
    /\ pc = "operation"
    /\ op = "program"
    /\ p' = [address |-> args.address, data |-> args.data,
             done |-> 0, total |-> Len(args.data), chunk |-> <<>>,
             page_size |-> args.page_size, nested |-> FALSE]
    /\ Call("program", "done")
    /\ UNCHANGED <<op, args, e, r, w, it, flash, sr, trace, outcome, codecVars, jtagVars, spi, g, dev>>

\* args.operation == "erase-program"
InteractEraseProgram ==
    /\ pc = "operation"
    /\ op = "erase-program"
    /\ e' = [NoErase EXCEPT !.address = args.address, !.data = args.data,
                            !.total = Len(args.data)]
    /\ Call("erase_program", "done")
    /\ UNCHANGED <<op, args, p, r, w, it, flash, sr, trace, outcome, codecVars, jtagVars, spi, g, dev>>

\* args.operation == "verify": the read
InteractVerify ==
    /\ pc = "operation"
    /\ op = "verify"
    /\ r' = [address |-> args.address, length |-> Len(args.data),
             chunk_size |-> <<>>, data |-> <<>>, cmd |-> CMD_READ, dummy |-> 0,
             observed |-> FALSE]
    /\ Call("read", "verify_compare")
    /\ UNCHANGED <<op, args, p, e, w, it, flash, sr, trace, outcome, codecVars, jtagVars, spi, g, dev>>

\* Mutant: the loop has no break and ends on the last difference.
RECURSIVE LastDifference(_, _, _)
LastDifference(gold_data, flash_data, i) ==
    IF i > Min(Len(gold_data), Len(flash_data)) THEN 0
    ELSE LET later == LastDifference(gold_data, flash_data, i + 1) IN
         IF later # 0 THEN later
         ELSE IF gold_data[i] # flash_data[i] THEN i ELSE 0

\* Index of the first position from i on where the zipped sequences differ; 0
\* when the loop ends without a break.
RECURSIVE FirstDifference(_, _, _)
FirstDifference(gold_data, flash_data, i) ==
    IF i > Min(Len(gold_data), Len(flash_data)) THEN 0
    ELSE IF gold_data[i] # flash_data[i] THEN i
    ELSE FirstDifference(gold_data, flash_data, i + 1)

\* args.operation == "verify": the comparison and its report
InteractVerifyCompare ==
    /\ pc = "verify_compare"
    /\ LET gold_data == args.data
           flash_data == r.data
           i == FirstDifference(gold_data, flash_data, 1)
       IN  IF gold_data = flash_data
           THEN /\ it' = [it EXCEPT !.flash_data = flash_data]
                /\ outcome' = "verify PASS"
                /\ pc' = "done"
                /\ stack' = stack
           ELSE /\ it' = [it EXCEPT !.flash_data = flash_data,
                             !.report = <<[different_at |-> args.address + (i - 1),
                                           gold_byte |-> gold_data[i],
                                           flash_byte |-> flash_data[i]]>>]
                /\ outcome' = "verify FAIL"
                /\ pc' = "raised"
                /\ stack' = stack
    /\ UNCHANGED <<op, args, p, e, r, w, flash, sr, trace, codecVars, jtagVars, spi, g, dev>>

\* (status & MSK_PROT) >> 2
ProtectBits(status) == BitAnd(status, MSK_PROT) \div 4

\* Mutant: the old protect bits are not cleared.
ProtectStatusKeepOld(status, bits) ==
    BitOr(status, BitAnd(bits * 4, MSK_PROT))

\* (status & ~MSK_PROT) | ((bits << 2) & MSK_PROT)
ProtectStatus(status, bits) ==
    BitOr(BitAndNot(status, MSK_PROT), BitAnd(bits * 4, MSK_PROT))

\* args.operation == "protect": the status read, then the query's report or
\* the new status value and write_enable().
InteractProtect ==
    /\ pc = "operation"
    /\ op = "protect"
    /\ \E status \in StatusReads :
         IF args.bits = <<>>
         THEN /\ it' = [it EXCEPT !.read = <<status>>,
                                  !.shown = <<ProtectBits(status)>>]
              /\ pc' = "done"
              /\ stack' = stack
         ELSE /\ it' = [it EXCEPT !.read = <<status>>,
                                  !.status = ProtectStatus(status, args.bits[1])]
              /\ Call("write_enable", "protect_write_status")
    /\ Sent(CMD_READ_STATUS)
    /\ UNCHANGED <<op, args, p, e, r, w, flash, sr, trace, outcome, codecVars, jtagVars, g, dev>>

\* await ecp5_iface.write_status(status)
InteractProtectWrite ==
    /\ pc = "protect_write_status"
    /\ w' = [w EXCEPT !.data = <<it.status>>]
    /\ Call("write_status", "done")
    /\ UNCHANGED <<op, args, p, e, r, it, flash, sr, trace, outcome, codecVars, jtagVars, spi, g, dev>>

\* The user runs the applet again to query the bits a finished session set.
\* args.earlier keeps the bits that session was given.
ProtectQueryAfterSet ==
    /\ pc = "done"
    /\ op = "protect"
    /\ args.bits # <<>>
    /\ args' = [args EXCEPT !.bits = <<>>, !.earlier = args.bits]
    /\ it' = NoInteract
    /\ w' = NoWip
    /\ pc' = "interact"
    /\ stack' = <<>>
    /\ UNCHANGED <<op, p, e, r, flash, sr, trace, outcome, codecVars, jtagVars, spi, g, dev>>

----------------------------------------------------------------------------
(* Sessions *)

NoArgs == [address |-> 0, data |-> <<>>, page_size |-> 1, sector_size |-> 1,
           bits |-> <<>>, earlier |-> <<>>, length |-> 0, addresses |-> <<>>,
           chunk_size |-> <<>>, prior |-> <<>>, kind |-> "",
           spec |-> [form |-> "str", ports |-> <<>>]]

\* A byte that is neither erased nor a newline.
OrdinaryByte == CHOOSE b \in ByteValues : b \notin {Newline, Erased}

\* Chip contents a session may start from: erased, filled, and two contents
\* whose neighbouring bytes differ.
FlashContents ==
    {[a \in 0..(FlashSize - 1) |-> Erased],
     [a \in 0..(FlashSize - 1) |-> Newline],
     [a \in 0..(FlashSize - 1) |-> IF a % 2 = 0 THEN OrdinaryByte ELSE Newline],
     [a \in 0..(FlashSize - 1) |-> IF a % 2 = 0 THEN Erased ELSE OrdinaryByte]}

\* Address and data of a request that lies inside the chip.
Requests ==
    {req \in (0..FlashSize) \X SeqsUpTo(ByteValues, MaxData) :
        req[1] + Len(req[2]) <= FlashSize}

InitSession ==
    /\ pc = "interact"
    /\ stack = <<>>
    /\ p = NoProgram
    /\ e = NoErase
    /\ r = NoRead
    /\ w = NoWip
    /\ it = NoInteract
    /\ trace = <<>>
    /\ outcome = ""
    /\ c_in = <<>>
    /\ c_kind = ""
    /\ c_bits = <<>>
    /\ c_out = <<>>
    /\ lower = <<>>
    /\ jt = NoLocals
    /\ spi = [entered |-> 1, last |-> CMD_WAKEUP]
    /\ g = NoRegisters
    /\ dev = NoDevice

InitProgram ==
    /\ op = "program"
    /\ \E req \in Requests, page_size \in 1..MaxPage :
         args = [NoArgs EXCEPT !.address = req[1], !.data = req[2],
                               !.page_size = page_size]
    /\ flash \in FlashContents
    /\ sr = 0

\* args.prior keeps the content the chip had when the operation started.
InitEraseProgram ==
    /\ op = "erase-program"
    /\ flash \in FlashContents
    /\ \E req \in Requests, page_size \in 1..MaxPage,
          sector_size \in 1..MaxSector :
         args = [NoArgs EXCEPT !.address = req[1], !.data = req[2],
                               !.page_size = page_size,
                               !.sector_size = sector_size,
                               !.prior = flash]
    /\ sr = 0

InitVerify ==
    /\ op = "verify"
    /\ \E req \in Requests :
         args = [NoArgs EXCEPT !.address = req[1], !.data = req[2]]
    /\ flash \in FlashContents
    /\ sr = 0

InitProtect ==
    /\ op = "protect"
    /\ \E bits \in {<<>>} \cup {<<b>> : b \in 0..15} :
         args = [NoArgs EXCEPT !.bits = bits]
    /\ flash = [a \in 0..(FlashSize - 1) |-> Erased]
    /\ sr \in {4 * k : k \in 0..63}

Init ==
    /\ InitSession
    /\ \/ InitProgram
       \/ InitEraseProgram
       \/ InitVerify
       \/ InitProtect

Next ==
    \/ InteractProtectionCheck
    \/ InteractProgram
    \/ InteractEraseProgram
    \/ InteractVerify
    \/ InteractVerifyCompare
    \/ InteractProtect
    \/ InteractProtectWrite
    \/ ProtectQueryAfterSet
    \/ ProgramLoop
    \/ ProgramPage
    \/ ProgramAdvance
    \/ EraseProgramLoop
    \/ EraseProgramSplice
    \/ EraseProgramErase
    \/ EraseProgramSectorErase
    \/ EraseProgramProgram
    \/ EraseProgramAdvance
    \/ ReadLoop
    \/ WriteEnable
    \/ PageProgram
    \/ SectorErase
    \/ WriteStatus
    \/ WipRead1
    \/ WipRead2

Spec == Init /\ [][Next]_vars

----------------------------------------------------------------------------
(* Properties of the flash operations *)

IsCmd(x, cmd) == x.k = "cmd" /\ x.cmd = cmd
IsCb(x) == x.k = "cb"

\* Positions of the trace holding a command with the given opcode.
Issued(cmd) == {i \in DOMAIN trace : IsCmd(trace[i], cmd)}

Bit(value, n) == (value \div Pow2(n)) % 2

\* C1: no page-program command issued by program() covers a byte range that
\* crosses a page boundary: a chunk of n >= 1 bytes at address a has
\* floor(a / page_size) = floor((a + n - 1) / page_size).
C1_NoChunkCrossesPage ==
    \A i \in Issued(CMD_PAGE_PROGRAM) :
        LET a == AddrOf(trace[i])
            n == Len(DataOf(trace[i]))
        IN  n >= 1 =>
              a \div args.page_size = (a + n - 1) \div args.page_size

\* C1 witness: program() started off a page boundary and has issued two
\* page-program commands, the second one of more than one byte.
C1_Witness ==
    /\ op = "program"
    /\ pc = "done"
    /\ args.address % args.page_size # 0
    /\ Cardinality(Issued(CMD_PAGE_PROGRAM)) >= 2
    /\ \E i \in Issued(CMD_PAGE_PROGRAM) : Len(DataOf(trace[i])) >= 2

\* Whether sector number s of the chip overlaps the range written.
SectorTouched(s) ==
    /\ Len(args.data) > 0
    /\ s * args.sector_size < args.address + Len(args.data)
    /\ args.address < (s + 1) * args.sector_size

\* The sector-erase commands issued for sector number s.
SectorErases(s) ==
    {i \in Issued(CMD_SECTOR_ERASE) : AddrOf(trace[i]) \div args.sector_size = s}

\* C2: a completed erase_program() has issued exactly one sector-erase command
\* for each sector that overlaps [address, address + len(data)), and none for
\* any other sector.
C2_OneErasePerTouchedSector ==
    (op = "erase-program" /\ pc = "done") =>
        \A s \in 0..(FlashSize + MaxSector) :
            Cardinality(SectorErases(s)) = (IF SectorTouched(s) THEN 1 ELSE 0)

\* C3: for each sector handled by erase_program(), the programming step is
\* skipped if and only if every byte of the merged sector image is 0xFF.
C3_SkipIffAllErased ==
    \A i \in DOMAIN e.sectors :
        (~e.sectors[i].programmed) <=>
            (\A j \in DOMAIN e.sectors[i].image : e.sectors[i].image[j] = Erased)

\* A status byte showing WEL set and WIP clear.
ShowsWelOnly(status) == Bit(status, 1) = 1 /\ Bit(status, 0) = 0

\* C4: write_in_progress() raises the command-named error only when the two
\* status reads of the call both show WEL set and WIP clear; for every other
\* pair of observations it returns.
C4_RaisesOnlyOnTwoReads ==
    /\ w.raised =>
          /\ w.n = 2
          /\ ShowsWelOnly(w.first)
          /\ ShowsWelOnly(w.second)
          /\ pc = "raised"
          /\ outcome = w.command \o " command failed"
    /\ w.returned # <<>> =>
          /\ ~w.raised
          /\ ~(w.n = 2 /\ ShowsWelOnly(w.first) /\ ShowsWelOnly(w.second))
          /\ (w.n = 1 => ~ShowsWelOnly(w.first))
    /\ (pc = "raised" /\ op # "verify") => w.raised

\* C4 witness: a call has raised after two reads.
C4_Witness == w.raised /\ w.n = 2 /\ w.command = "SECTOR ERASE"

\* C7: when the data fits inside the page holding the start address,
\* program() issues exactly one page-program command, at the start address
\* and carrying all of the data, and then makes the final callback with
\* done = total = len(data) and status None.
C7_SinglePage ==
    (/\ op = "program"
     /\ pc = "done"
     /\ Len(args.data) >= 1
     /\ (args.address % args.page_size) + Len(args.data) <= args.page_size)
    =>
    /\ Cardinality(Issued(CMD_PAGE_PROGRAM)) = 1
    /\ \A i \in Issued(CMD_PAGE_PROGRAM) :
          /\ AddrOf(trace[i]) = args.address
          /\ DataOf(trace[i]) = args.data
          /\ i < Len(trace)
    /\ trace[Len(trace)] = Cb(Len(args.data), Len(args.data), "None", 0)
    /\ Cardinality({i \in DOMAIN trace : IsCb(trace[i])
                                         /\ trace[i].status = "None"}) = 1

\* C7 witness: program() has finished a request of several bytes that fits
\* in one page.
C7_Witness ==
    /\ op = "program"
    /\ pc = "done"
    /\ Len(args.data) >= 2
    /\ (args.address % args.page_size) + Len(args.data) <= args.page_size

\* The requested lengths of the read commands before position i of the trace.
RECURSIVE ReadBefore(_)
ReadBefore(i) ==
    IF i <= 1 THEN 0
    ELSE ReadBefore(i - 1)
         + (IF IsCmd(trace[i - 1], CMD_READ) THEN trace[i - 1].ret ELSE 0)

\* Offsets at which the expected data and the chip differ.
Differing == {i \in 0..(Len(args.data) - 1) :
                 args.data[i + 1] # FlashRead(args.address + i)}

\* C9: verify reads back exactly len(expected) bytes from the given address;
\* if they equal the expected data it finishes without raising; otherwise it
\* raises after reporting the absolute address of the lowest differing byte
\* with the expected and the actual byte there.
C9_Verify ==
    (op = "verify" /\ pc \in {"done", "raised"}) =>
        /\ ReadBefore(Len(trace) + 1) = Len(args.data)
        /\ \A i \in Issued(CMD_READ) :
              AddrOf(trace[i]) = args.address + ReadBefore(i)
        /\ IF Differing = {}
           THEN pc = "done" /\ outcome = "verify PASS" /\ it.report = <<>>
           ELSE LET i == CHOOSE x \in Differing : \A y \in Differing : x <= y
                IN  /\ pc = "raised"
                    /\ outcome = "verify FAIL"
                    /\ it.report = <<[different_at |-> args.address + i,
                                      gold_byte |-> args.data[i + 1],
                                      flash_byte |-> FlashRead(args.address + i)]>>

\* C9 witness: verify has failed on data that differs in several places, the
\* first of them not at the start.
C9_Witness ==
    /\ op = "verify"
    /\ pc = "raised"
    /\ Cardinality(Differing) >= 2
    /\ it.report[1].different_at > args.address

\* C9 witness of the other case: verify has passed on data of several bytes.
C9_WitnessPass == op = "verify" /\ pc = "done" /\ Len(args.data) >= 2

\* C10: block-protect set with the 4-bit value b reads the status s, then
\* issues write-enable followed by write-status with a value whose bits 2-5
\* are b and whose bits 0, 1, 6 and 7 are those of s; a following query on
\* the chip that stored the value returns b.
C10_ProtectSet ==
    /\ (op = "protect" /\ args.bits # <<>>) =>
          \A i \in Issued(CMD_WRITE_STATUS) :
              LET value == trace[i].arg[1]
                  s == it.read[1]
              IN  /\ i = 2
                  /\ IsCmd(trace[1], CMD_WRITE_ENABLE)
                  /\ Len(trace[i].arg) = 1
                  /\ \A n \in 2..5 : Bit(value, n) = Bit(args.bits[1], n - 2)
                  /\ \A n \in {0, 1, 6, 7} : Bit(value, n) = Bit(s, n)
    /\ (op = "protect" /\ args.bits # <<>> /\ pc = "done") =>
          Cardinality(Issued(CMD_WRITE_STATUS)) = 1
    /\ (op = "protect" /\ args.earlier # <<>> /\ pc = "done") =>
          it.shown = args.earlier

\* C10 witness: after a set of 0b1010 on a chip whose protect field held
\* 0b0101 and whose bit 6 was set, the query has returned 0b1010.
C10_Witness ==
    /\ op = "protect"
    /\ pc = "done"
    /\ args.earlier = <<10>>
    /\ it.shown = <<10>>
    /\ \E i \in Issued(CMD_WRITE_STATUS) :
          /\ Bit(trace[i].arg[1], 6) = 1
          /\ Bit(trace[i].arg[1], 7) = 0

----------------------------------------------------------------------------
(* The erase-program scenario: 32 bytes of 0xAA at 0x0FF0, sectors of 0x1000 *)
(* bytes, pages of 256 bytes, on a chip of two sectors.                     *)

Scenario == [address |-> 4080, length |-> 32, sector_size |-> 4096,
             page_size |-> 256, byte |-> 170, chip_size |-> 8192]

ScenarioData == [i \in 1..Scenario.length |-> Scenario.byte]

ScenarioFlash ==
    {[a \in 0..(Scenario.chip_size - 1) |-> Erased],
     [a \in 0..(Scenario.chip_size - 1) |->
        IF a % 2 = 0 THEN Newline ELSE Erased]}

InitScenario ==
    /\ InitSession
    /\ op = "erase-program"
    /\ args = [NoArgs EXCEPT !.address = Scenario.address,
                             !.data = ScenarioData,
                             !.page_size = Scenario.page_size,
                             !.sector_size = Scenario.sector_size]
    /\ flash \in ScenarioFlash
    /\ sr = 0

NextEraseProgram ==
    \/ InteractProtectionCheck
    \/ InteractEraseProgram
    \/ EraseProgramLoop
    \/ EraseProgramSplice
    \/ EraseProgramErase
    \/ EraseProgramSectorErase
    \/ EraseProgramProgram
    \/ EraseProgramAdvance
    \/ ProgramLoop
    \/ ProgramPage
    \/ ProgramAdvance
    \/ ReadLoop
    \/ WriteEnable
    \/ PageProgram
    \/ SectorErase
    \/ WipRead1
    \/ WipRead2

SpecScenario == InitScenario /\ [][NextEraseProgram]_vars

\* The bytes of a chip content from address a on, n of them.
Window(f, a, n) == [i \in 1..n |-> f[a + i - 1]]

\* The payloads of the page-program commands at positions lo..hi of the trace,
\* one after the other.
RECURSIVE Programmed(_, _)
Programmed(lo, hi) ==
    IF lo > hi THEN <<>>
    ELSE IF IsCmd(trace[lo], CMD_PAGE_PROGRAM)
         THEN DataOf(trace[lo]) \o Programmed(lo + 1, hi)
         ELSE Programmed(lo + 1, hi)

\* Positions of the sector-erase commands, in order.
FirstErase == CHOOSE i \in Issued(CMD_SECTOR_ERASE) :
                 \A j \in Issued(CMD_SECTOR_ERASE) : i <= j
LastErase  == CHOOSE i \in Issued(CMD_SECTOR_ERASE) :
                 \A j \in Issued(CMD_SECTOR_ERASE) : j <= i

\* The sector images the scenario makes from the chip content f: the first 16
\* bytes at the end of sector 0x0000, the other 16 at the start of sector 0x1000.
ScenarioHalf == [i \in 1..(Scenario.length \div 2) |-> Scenario.byte]
ScenarioImage1(f) ==
    [i \in 1..Scenario.sector_size |->
        IF i > Scenario.sector_size - Len(ScenarioHalf)
        THEN Scenario.byte ELSE f[i - 1]]
ScenarioImage2(f) ==
    [i \in 1..Scenario.sector_size |->
        IF i <= Len(ScenarioHalf)
        THEN Scenario.byte ELSE f[Scenario.sector_size + i - 1]]

\* C8 as stated: the scenario reads back one sector, splices all 32 bytes at
\* offset 0xFF0 of its image, erases that sector and programs the merged
\* 4096-byte image.
C8_AsStated ==
    /\ e.chunk # <<>> => e.chunk = ScenarioData /\ e.sector_start = 0
    /\ pc = "done" =>
          /\ Len(e.sectors) = 1
          /\ Len(e.sectors[1].image) = Scenario.sector_size
          /\ Cardinality(Issued(CMD_SECTOR_ERASE)) = 1
          /\ Programmed(1, Len(trace)) = e.sectors[1].image

\* C8 amended: the scenario cuts the data at the sector boundary 0x1000.  It
\* reads back sector 0x0000, splices the first 16 bytes at offset 0xFF0,
\* erases that sector and programs the merged 4096-byte image; then it reads
\* back sector 0x1000, splices the other 16 bytes at offset 0, erases that
\* sector and programs its merged 4096-byte image.
C8_SplitsAtSectorBoundary ==
    LET size == Scenario.sector_size
        first(f) == [start |-> 0, address |-> Scenario.address,
                     chunk |-> ScenarioHalf, image |-> ScenarioImage1(f),
                     programmed |-> TRUE]
        second(f) == [start |-> size, address |-> size,
                      chunk |-> ScenarioHalf, image |-> ScenarioImage2(f),
                      programmed |-> TRUE]
    IN  /\ e.chunk # <<>> => e.chunk = ScenarioHalf
        /\ (e.chunk # <<>> /\ pc # "erase_program") =>
              e.sector_start = (IF e.address < size THEN 0 ELSE size)
        /\ \A i \in Issued(CMD_READ) : AddrOf(trace[i]) = ReadBefore(i)
        /\ \A i \in Issued(CMD_SECTOR_ERASE) :
              /\ AddrOf(trace[i]) \in {0, size}
              /\ ReadBefore(i) = AddrOf(trace[i]) + size
        /\ Len(e.sectors) <= 2
        /\ \A i \in DOMAIN e.sectors :
              /\ e.sectors[i].start = (i - 1) * size
              /\ e.sectors[i].chunk = ScenarioHalf
              /\ e.sectors[i].programmed
        /\ pc = "ep_erase" =>
              /\ ReadBefore(Len(trace) + 1) = e.sector_start + size
              /\ \E f \in ScenarioFlash :
                    e.sector_data = (IF e.sector_start = 0
                                     THEN ScenarioImage1(f)
                                     ELSE ScenarioImage2(f))
        /\ pc = "done" =>
              \E f \in ScenarioFlash :
                  /\ e.sectors = <<first(f), second(f)>>
                  /\ Cardinality(Issued(CMD_SECTOR_ERASE)) = 2
                  /\ AddrOf(trace[FirstErase]) = 0
                  /\ AddrOf(trace[LastErase]) = size
                  /\ Programmed(1, FirstErase) = <<>>
                  /\ Programmed(FirstErase, LastErase) = ScenarioImage1(f)
                  /\ Programmed(LastErase, Len(trace)) = ScenarioImage2(f)
                  /\ flash = [a \in 0..(Scenario.chip_size - 1) |->
                                IF /\ a >= Scenario.address
                                   /\ a < Scenario.address + Scenario.length
                                THEN Scenario.byte ELSE f[a]]

\* C8 witness: on a chip that was not erased, the scenario has read back
\* sector 0x0000 and spliced the first 16 bytes at its end.
C8_Witness ==
    /\ pc = "ep_erase"
    /\ args.address = Scenario.address
    /\ e.sector_start = 0
    /\ e.sector_data[1] = Newline
    /\ e.sector_data[Scenario.address] = Erased
    /\ e.sector_data[Scenario.address + 1] = Scenario.byte
    /\ e.sector_data[Scenario.sector_size] = Scenario.byte

----------------------------------------------------------------------------
(* The codec on its own: a nibble string is encoded by one of the two codecs *)
(* and the bits shifted come back unchanged to the decode of _command().     *)

Nibbles == 0..15

InitCodec ==
    /\ op = "codec"
    /\ args = NoArgs
    /\ pc = "codec"
    /\ stack = <<>>
    /\ p = NoProgram
    /\ e = NoErase
    /\ r = NoRead
    /\ w = NoWip
    /\ it = NoInteract
    /\ flash = [a \in 0..(FlashSize - 1) |-> Erased]
    /\ sr = 0
    /\ trace = <<>>
    /\ outcome = ""
    /\ c_in \in SeqsUpTo(Nibbles, MaxNibbles)
    /\ c_kind = ""
    /\ c_bits = <<>>
    /\ c_out = <<>>
    /\ lower = <<>>
    /\ jt = NoLocals
    /\ spi = [entered |-> 0, last |-> 0]
    /\ g = NoRegisters
    /\ dev = NoDevice

sessionVars == <<op, args, pc, stack, p, e, r, w, it, flash, sr, trace, outcome>>

\* xmit goes through _bitarray(), as in _command()
CodecBitarray ==
    /\ pc = "codec"
    /\ c_kind = ""
    /\ c_kind' = "command"
    /\ c_bits' = Bitarray(c_in)
    /\ UNCHANGED <<c_in, c_out, sessionVars, jtagVars, spi, g, dev>>

\* tdi goes through _hex_to_bitarray(), as in _sir() and _sdr()
CodecHexToBitarray ==
    /\ pc = "codec"
    /\ c_kind = ""
    /\ c_kind' = "instruction"
    /\ c_bits' = HexToBitarray(c_in)
    /\ UNCHANGED <<c_in, c_out, sessionVars, jtagVars, spi, g, dev>>

\* the bits come back and are decoded as _command() decodes a response
CodecDecode ==
    /\ pc = "codec"
    /\ c_kind # ""
    /\ c_out = <<>>
    /\ c_out' = <<CommandDecode(c_bits)>>
    /\ UNCHANGED <<c_in, c_kind, c_bits, sessionVars, jtagVars, spi, g, dev>>

NextCodec == CodecBitarray \/ CodecHexToBitarray \/ CodecDecode

SpecCodec == InitCodec /\ [][NextCodec]_vars

\* The number a nibble string writes in base 16.
RECURSIVE NibbleValue(_)
NibbleValue(nibbles) ==
    IF nibbles = <<>> THEN 0
    ELSE NibbleValue(SubSeq(nibbles, 1, Len(nibbles) - 1)) * 16
         + nibbles[Len(nibbles)]

\* The number a bit sequence writes in base 2, its first bit the highest.
RECURSIVE HighFirst(_)
HighFirst(bits) ==
    IF bits = <<>> THEN 0
    ELSE HighFirst(SubSeq(bits, 1, Len(bits) - 1)) * 2 + bits[Len(bits)]

\* The number a bit sequence writes in base 2, its first bit the lowest.
LowFirst(bits) == HighFirst(Reverse(bits))

\* C5: for both codecs, decoding the bit sequence made by encoding a byte
\* string yields the byte string again.
C5_RoundTrip == c_out # <<>> => c_out[1] = HexBytes(c_in)

\* C6: a nibble string of odd length n is padded on the left with exactly one
\* zero nibble by both codecs: the encoded value has (n+1)/2 bytes, the last
\* nibble given is the low nibble of the last byte, and the number written is
\* unchanged.
C6_OddLengthPadding ==
    (c_kind # "" /\ Len(c_in) % 2 = 1) =>
        LET n == Len(c_in)
            bits == c_bits
            last == SubSeq(bits, Len(bits) - 3, Len(bits))
        IN  /\ Len(bits) = 8 * ((n + 1) \div 2)
            /\ Len(HexBytes(c_in)) = (n + 1) \div 2
            /\ HexBytes(c_in)[(n + 1) \div 2] % 16 = c_in[n]
            /\ c_kind = "command" =>
                  /\ HighFirst(bits) = NibbleValue(c_in)
                  /\ HighFirst(SubSeq(bits, 1, 4)) = 0
                  /\ HighFirst(last) = c_in[n]
            /\ c_kind = "instruction" =>
                  /\ LowFirst(bits) = NibbleValue(c_in)
                  /\ LowFirst(SubSeq(bits, 1, 4)) = c_in[n]
                  /\ LowFirst(last) = 0

\* C6 witness: three nibbles, none of them zero, have gone through the
\* instruction codec.
C6_Witness ==
    /\ c_kind = "instruction"
    /\ Len(c_in) = 3
    /\ \A i \in 1..3 : c_in[i] # 0
    /\ c_in[1] # c_in[3]

\* C6 witness for the other codec.
C6_WitnessCommand ==
    /\ c_kind = "command"
    /\ Len(c_in) = 3
    /\ \A i \in 1..3 : c_in[i] # 0

----------------------------------------------------------------------------
(* The SPI transceiver on the transport: _command() and the shift helpers.  *)
(* The transport (self.lower) is external; lower records the calls made on  *)
(* it, and the bits it shifts back are chosen by the environment.           *)

MaxArg   == 2
MaxDummy == 4
MaxRet   == 2

\* One call on the transport: its name, the bits shifted and the cycle count.
LowerCall(call, bits, count) == [call |-> call, bits |-> bits, count |-> count]

\* Mutant: the shift is made without entering and leaving the shift state.
SdrArrayShiftOnly(tdi) == <<LowerCall("shift_tdio", tdi, 0)>>

\* _sdr_array(tdi): the transport calls of one data-register shift cycle
SdrArray(tdi) ==
    <<LowerCall("enter_shift_dr", <<>>, 0),
      LowerCall("shift_tdio", tdi, 0),
      LowerCall("enter_pause_dr", <<>>, 0)>>

\* _sdr(tdi): as _sdr_array(), the nibble string going through _hex_to_bitarray()
Sdr(tdi) ==
    <<LowerCall("enter_shift_dr", <<>>, 0),
      LowerCall("shift_tdio", HexToBitarray(tdi), 0),
      LowerCall("enter_pause_dr", <<>>, 0)>>

\* _sir(tdi)
Sir(tdi) ==
    <<LowerCall("enter_shift_ir", <<>>, 0),
      LowerCall("shift_tdi", HexToBitarray(tdi), 0),
      LowerCall("enter_pause_ir", <<>>, 0)>>

\* [0 for _ in range(n)]
Zeros(n) == [i \in 1..n |-> 0]

\* Bit sequences the transport may shift back for n bits shifted in.
TdoBits(n) ==
    {[i \in 1..n |-> 0], [i \in 1..n |-> 1], [i \in 1..n |-> i % 2],
     [i \in 1..n |-> IF i % 8 = 1 THEN 1 ELSE 0]}

\* _command(): xmit of opcode, arguments and dummy bytes, and its shift cycle
CommandShiftOut ==
    /\ pc = "command"
    /\ LET xmit == FormatHex(<<jt.cmd>> \o jt.arg \o Zeros(jt.dummy)) IN
       lower' = lower \o SdrArray(Bitarray(xmit))
    /\ pc' = "command_ret"
    /\ UNCHANGED <<op, args, stack, p, e, r, w, it, flash, sr, trace, outcome,
                   codecVars, jt, spi, g, dev>>

\* _command(): "Clock in return value", the shift cycle of ret zero bytes
CommandShiftIn ==
    /\ pc = "command_ret"
    /\ LET xmit == FormatHex(Zeros(jt.ret)) IN
       /\ lower' = lower \o SdrArray(Bitarray(xmit))
       /\ \E value \in TdoBits(Len(Bitarray(xmit))) :
             jt' = [jt EXCEPT !.value = value]
    /\ pc' = "command_decode"
    /\ UNCHANGED <<op, args, stack, p, e, r, w, it, flash, sr, trace, outcome,
                   codecVars, spi, g, dev>>

\* _command(): the response is decoded and returned
CommandReturn ==
    /\ pc = "command_decode"
    /\ jt' = [jt EXCEPT !.result = <<CommandDecode(jt.value)>>]
    /\ Sent(jt.cmd)
    /\ Return
    /\ UNCHANGED <<op, args, p, e, r, w, it, flash, sr, trace, outcome,
                   codecVars, lower, g, dev>>

\* Opcodes and argument bytes the transceiver is called with.
CommandOpcodes == {CMD_WRITE_ENABLE, CMD_READ, CMD_READ_STATUS, CMD_WAKEUP}
ArgBytes == {0, 18, Erased}

InitCommand ==
    /\ op = "command"
    /\ args = NoArgs
    /\ pc = "command"
    /\ stack = <<"done">>
    /\ p = NoProgram
    /\ e = NoErase
    /\ r = NoRead
    /\ w = NoWip
    /\ it = NoInteract
    /\ flash = [a \in 0..(FlashSize - 1) |-> Erased]
    /\ sr = 0
    /\ trace = <<>>
    /\ outcome = ""
    /\ c_in = <<>>
    /\ c_kind = ""
    /\ c_bits = <<>>
    /\ c_out = <<>>
    /\ lower = <<>>
    /\ \E cmd \in CommandOpcodes, arg \in SeqsUpTo(ArgBytes, MaxArg),
          dummy \in 0..MaxDummy, ret \in 0..MaxRet :
         jt = [NoLocals EXCEPT !.cmd = cmd, !.arg = arg, !.dummy = dummy,
                               !.ret = ret]
    /\ spi = [entered |-> 1, last |-> 0]
    /\ g = NoRegisters
    /\ dev = NoDevice

NextCommand == CommandShiftOut \/ CommandShiftIn \/ CommandReturn

SpecCommand == InitCommand /\ [][NextCommand]_vars

\* The bytes a bit sequence carries when each byte is shifted highest bit first.
BytesHighFirst(bits) ==
    [k \in 1..(Len(bits) \div 8) |-> HighFirst(SubSeq(bits, 8 * k - 7, 8 * k))]

\* The names of the transport calls logged from position lo to hi.
CallNames(lo, hi) == [i \in 1..(hi - lo + 1) |-> lower[lo + i - 1].call]

DrCycle == <<"enter_shift_dr", "shift_tdio", "enter_pause_dr">>

\* C11: every call of _command() makes exactly two data-register shift cycles
\* on the transport, each one enter-shift-DR, one shift, enter-pause-DR with
\* nothing in between; the first carries opcode, arguments and dummy zero
\* bytes, the second ret zero bytes, for every dummy and ret, ret = 0 included.
C11_TwoShiftCycles ==
    op = "command" =>
        /\ Len(lower) = (CASE pc = "command" -> 0
                           [] pc = "command_ret" -> 3
                           [] OTHER -> 6)
        /\ CallNames(1, Len(lower)) = SubSeq(DrCycle \o DrCycle, 1, Len(lower))
        /\ Len(lower) >= 3 =>
              BytesHighFirst(lower[2].bits)
                  = <<jt.cmd>> \o jt.arg \o [i \in 1..jt.dummy |-> 0]
        /\ Len(lower) >= 3 =>
              Len(lower[2].bits) = 8 * (1 + Len(jt.arg) + jt.dummy)
        /\ Len(lower) = 6 =>
              lower[5].bits = [i \in 1..(8 * jt.ret) |-> 0]

\* C11 witness: a call with dummy bytes and ret = 0 has returned.
C11_Witness ==
    /\ op = "command"
    /\ pc = "done"
    /\ jt.ret = 0
    /\ jt.dummy = MaxDummy
    /\ Len(jt.arg) >= 1
    /\ Len(lower) = 6
    /\ jt.result = <<<<>>>>

----------------------------------------------------------------------------
(* The Passthrough Sequencer: enter_spi_mode()                               *)

MaxFrequency == 2

\* Hexadecimal digits of the nibble strings the sequencer shifts.
HexA == 10
HexC == 12
HexE == 14
HexF == 15

\* The statements of enter_spi_mode(), in program order.
Statement(kind, name, tdi, millis) ==
    [kind |-> kind, name |-> name, tdi |-> tdi, millis |-> millis]

EnterSpiModeBody ==
    <<Statement("lower", "test_reset", <<>>, 0),
      Statement("lower", "enter_run_test_idle", <<>>, 0),
      Statement("sir", "", <<HexE, 0>>, 0),
      Statement("sdr", "idcode", <<0, 0, 0, 0, 0, 0, 0, 0>>, 0),
      Statement("sir", "", <<1, HexC>>, 0),
      Statement("sdr", "", <<3>> \o [i \in 1..127 |-> HexF], 0),
      Statement("sir", "", <<HexC, 6>>, 0),
      Statement("sdr", "", <<0, 0>>, 0),
      Statement("run_test", "", <<>>, 10),
      Statement("sir", "", <<0, HexE>>, 0),
      Statement("sdr", "", <<0, 1>>, 0),
      Statement("run_test", "", <<>>, 200),
      Statement("sir", "", <<2, 6>>, 0),
      Statement("run_test", "", <<>>, 10),
      Statement("sir", "", <<HexF, HexF>>, 0),
      Statement("lower", "enter_run_test_idle", <<>>, 0),
      Statement("run_test", "", <<>>, 20),
      Statement("sir", "", <<3, HexA>>, 0),
      Statement("sdr", "", <<6, 8, HexF, HexE>>, 0),
      Statement("lower", "enter_run_test_idle", <<>>, 0),
      Statement("run_test", "", <<>>, 20)>>

\* The statement enter_spi_mode() is about to execute.
Current == EnterSpiModeBody[jt.i + 1]

\* Mutant: the idle period does not depend on the time asked for.
RunTestCyclesFlat(millis, frequency) == frequency

\* int(millis * self.args.frequency)
RunTestCycles(millis, frequency) == millis * frequency

\* await self.lower.test_reset() / enter_run_test_idle()
EnterSpiModeLower ==
    /\ pc = "enter_spi_mode"
    /\ jt.i < Len(EnterSpiModeBody)
    /\ Current.kind = "lower"
    /\ lower' = Append(lower, LowerCall(Current.name, <<>>, 0))
    /\ jt' = [jt EXCEPT !.i = jt.i + 1]
    /\ UNCHANGED <<op, args, pc, stack, p, e, r, w, it, flash, sr, trace,
                   outcome, codecVars, spi, g, dev>>

\* await self._sir(tdi)
EnterSpiModeSir ==
    /\ pc = "enter_spi_mode"
    /\ jt.i < Len(EnterSpiModeBody)
    /\ Current.kind = "sir"
    /\ lower' = lower \o Sir(Current.tdi)
    /\ jt' = [jt EXCEPT !.i = jt.i + 1]
    /\ UNCHANGED <<op, args, pc, stack, p, e, r, w, it, flash, sr, trace,
                   outcome, codecVars, spi, g, dev>>

\* await self._sdr(tdi); the bits shifted back are kept for the ID code only.
\* idcode holds the four bytes struct.unpack("<L", ...) reads, lowest first.
EnterSpiModeSdr ==
    /\ pc = "enter_spi_mode"
    /\ jt.i < Len(EnterSpiModeBody)
    /\ Current.kind = "sdr"
    /\ lower' = lower \o Sdr(Current.tdi)
    /\ \E idcode_bits \in TdoBits(4 * Len(Current.tdi)) :
          jt' = [jt EXCEPT !.i = jt.i + 1,
                           !.idcode = IF Current.name = "idcode"
                                      THEN ToBytes(idcode_bits) ELSE jt.idcode]
    /\ UNCHANGED <<op, args, pc, stack, p, e, r, w, it, flash, sr, trace,
                   outcome, codecVars, spi, g, dev>>

\* await self._run_test(millis)
EnterSpiModeRunTest ==
    /\ pc = "enter_spi_mode"
    /\ jt.i < Len(EnterSpiModeBody)
    /\ Current.kind = "run_test"
    /\ lower' = Append(lower,
          LowerCall("run_test_idle", <<>>,
                    RunTestCycles(Current.millis, jt.frequency)))
    /\ jt' = [jt EXCEPT !.i = jt.i + 1]
    /\ UNCHANGED <<op, args, pc, stack, p, e, r, w, it, flash, sr, trace,
                   outcome, codecVars, spi, g, dev>>

\* enter_spi_mode() returns; its locals are gone.
EnterSpiModeReturn ==
    /\ pc = "enter_spi_mode"
    /\ jt.i = Len(EnterSpiModeBody)
    /\ jt' = [jt EXCEPT !.i = 0, !.idcode = <<>>]
    /\ spi' = [spi EXCEPT !.entered = spi.entered + 1]
    /\ Return
    /\ UNCHANGED <<op, args, p, e, r, w, it, flash, sr, trace, outcome,
                   codecVars, lower, g, dev>>

----------------------------------------------------------------------------
(* Flash Command Layer: the commands of the other operations                 *)

\* BLOCK ERASE sets the block holding the address, two sectors, to erased.
FlashBlockErase(f, address, sector_size) ==
    FlashSectorErase(f, address, 2 * sector_size)

\* wakeup()
Wakeup ==
    /\ pc = "wakeup"
    /\ trace' = Append(trace, Cmd(CMD_WAKEUP, <<>>, 4, 0))
    /\ Sent(CMD_WAKEUP)
    /\ pc' = "interact"
    /\ UNCHANGED <<op, args, stack, p, e, r, w, it, flash, sr, outcome,
                   codecVars, jtagVars, g, dev>>

\* block_erase(address): the opcode, then the completion poll.
BlockErase ==
    /\ pc = "block_erase"
    /\ trace' = Append(trace, Cmd(CMD_BLOCK_ERASE, FormatAddr(w.address), 0, 0))
    /\ Sent(CMD_BLOCK_ERASE)
    /\ flash' = FlashBlockErase(flash, w.address, args.sector_size)
    /\ w' = [w EXCEPT !.command = "BLOCK ERASE"]
    /\ pc' = "wip"
    /\ UNCHANGED <<op, args, stack, p, e, r, it, sr, outcome, codecVars,
                   jtagVars, g, dev>>

\* chip_erase(): the opcode, then the completion poll.
ChipErase ==
    /\ pc = "chip_erase"
    /\ trace' = Append(trace, Cmd(CMD_CHIP_ERASE, <<>>, 0, 0))
    /\ Sent(CMD_CHIP_ERASE)
    /\ flash' = [a \in DOMAIN flash |-> Erased]
    /\ w' = [w EXCEPT !.command = "CHIP ERASE"]
    /\ pc' = "wip"
    /\ UNCHANGED <<op, args, stack, p, e, r, it, sr, outcome, codecVars,
                   jtagVars, g, dev>>

----------------------------------------------------------------------------
(* The applet: interact() from its first line, and its other operations      *)

\* Mutant: the session goes to the flash commands without the passthrough entry.
InteractStartNoPassthrough ==
    /\ pc = "session"
    /\ pc' = "wakeup"
    /\ UNCHANGED <<op, args, stack, p, e, r, w, it, flash, sr, trace, outcome,
                   codecVars, jtagVars, spi, g, dev>>

\* await ecp5_iface.enter_spi_mode()
InteractStart ==
    /\ pc = "session"
    /\ jt' = [jt EXCEPT !.i = 0]
    /\ Call("enter_spi_mode", "wakeup")
    /\ UNCHANGED <<op, args, p, e, r, w, it, flash, sr, trace, outcome,
                   codecVars, lower, spi, g, dev>>

\* Replies of a chip to the manufacturer/device ID command.
DeviceIds == {<<194, 21>>, <<Erased, Erased>>}

\* args.operation == "identify"
InteractIdentify ==
    /\ pc = "operation"
    /\ op = "identify"
    /\ trace' = Append(trace, Cmd(CMD_READ_MFG_ID, <<>>, 3, 2))
    /\ Sent(CMD_READ_MFG_ID)
    /\ \E ids \in DeviceIds : it' = [it EXCEPT !.shown = ids]
    /\ pc' = "done"
    /\ UNCHANGED <<op, args, stack, p, e, r, w, flash, sr, outcome, codecVars,
                   jtagVars, g, dev>>

\* args.operation in ("read", "fast-read"): the read
InteractRead ==
    /\ pc = "operation"
    /\ op \in {"read", "fast-read"}
    /\ r' = [address |-> args.address, length |-> args.length,
             chunk_size |-> <<>>, data |-> <<>>,
             cmd |-> IF op = "read" THEN CMD_READ ELSE CMD_FAST_READ,
             dummy |-> IF op = "read" THEN 0 ELSE 1,
             observed |-> TRUE]
    /\ Call("read", "read_output")
    /\ UNCHANGED <<op, args, p, e, w, it, flash, sr, trace, outcome, codecVars,
                   jtagVars, spi, g, dev>>

\* args.operation in ("read", "fast-read"): the data is written out
InteractReadOutput ==
    /\ pc = "read_output"
    /\ it' = [it EXCEPT !.shown = r.data]
    /\ pc' = "done"
    /\ UNCHANGED <<op, args, stack, p, e, r, w, flash, sr, trace, outcome,
                   codecVars, jtagVars, spi, g, dev>>

\* args.operation == "program-page": write_enable()
InteractProgramPage ==
    /\ pc = "operation"
    /\ op = "program-page"
    /\ Call("write_enable", "program_page_op")
    /\ UNCHANGED <<op, args, p, e, r, w, it, flash, sr, trace, outcome,
                   codecVars, jtagVars, spi, g, dev>>

\* args.operation == "program-page": page_program(args.address, data)
InteractPageProgram ==
    /\ pc = "program_page_op"
    /\ w' = [w EXCEPT !.address = args.address, !.data = args.data]
    /\ Call("page_program", "done")
    /\ UNCHANGED <<op, args, p, e, r, it, flash, sr, trace, outcome, codecVars,
                   jtagVars, spi, g, dev>>

\* args.operation in ("erase-sector", "erase-block"): the loop starts
InteractErase ==
    /\ pc = "operation"
    /\ op \in {"erase-sector", "erase-block"}
    /\ it' = [it EXCEPT !.todo = args.addresses]
    /\ pc' = "erase_loop"
    /\ UNCHANGED <<op, args, stack, p, e, r, w, flash, sr, trace, outcome,
                   codecVars, jtagVars, spi, g, dev>>

\* Mutant: the loop erases without a write_enable() of its own.
InteractEraseLoopNoEnable ==
    /\ pc = "erase_loop"
    /\ IF it.todo = <<>>
       THEN pc' = "done"
       ELSE pc' = "erase_address"
    /\ UNCHANGED <<op, args, stack, p, e, r, w, it, flash, sr, trace, outcome,
                   codecVars, jtagVars, spi, g, dev>>

\* for address in args.addresses: write_enable()
InteractEraseLoop ==
    /\ pc = "erase_loop"
    /\ IF it.todo = <<>>
       THEN pc' = "done" /\ stack' = stack
       ELSE Call("write_enable", "erase_address")
    /\ UNCHANGED <<op, args, p, e, r, w, it, flash, sr, trace, outcome,
                   codecVars, jtagVars, spi, g, dev>>

\* sector_erase(address) or block_erase(address)
InteractEraseAddress ==
    /\ pc = "erase_address"
    /\ w' = [w EXCEPT !.address = Head(it.todo), !.data = <<>>]
    /\ it' = [it EXCEPT !.todo = Tail(it.todo)]
    /\ Call(IF op = "erase-sector" THEN "sector_erase" ELSE "block_erase",
            "erase_loop")
    /\ UNCHANGED <<op, args, p, e, r, flash, sr, trace, outcome, codecVars,
                   jtagVars, spi, g, dev>>

\* args.operation == "erase-chip": write_enable()
InteractEraseChip ==
    /\ pc = "operation"
    /\ op = "erase-chip"
    /\ Call("write_enable", "erase_chip_op")
    /\ UNCHANGED <<op, args, p, e, r, w, it, flash, sr, trace, outcome,
                   codecVars, jtagVars, spi, g, dev>>

\* args.operation == "erase-chip": chip_erase()
InteractChipErase ==
    /\ pc = "erase_chip_op"
    /\ Call("chip_erase", "done")
    /\ UNCHANGED <<op, args, p, e, r, w, it, flash, sr, trace, outcome,
                   codecVars, jtagVars, spi, g, dev>>

\* Inputs of the whole-session model.
SessionAddresses == 0..1
SessionData == SeqsUpTo({OrdinaryByte, Erased}, 2)
SessionFlash == {f \in FlashContents : f[0] = Erased}

SessionArgs(operation) ==
    CASE operation \in {"identify", "erase-chip"} -> {NoArgs}
      [] operation \in {"read", "fast-read"} ->
           {[NoArgs EXCEPT !.address = a, !.length = n] :
               a \in SessionAddresses, n \in 0..2}
      [] operation \in {"program-page", "verify"} ->
           {[NoArgs EXCEPT !.address = a, !.data = d] :
               a \in SessionAddresses, d \in SessionData}
      [] operation = "program" ->
           {[NoArgs EXCEPT !.address = a, !.data = d, !.page_size = ps] :
               a \in SessionAddresses, d \in SessionData, ps \in 1..MaxPage}
      [] operation = "erase-program" ->
           {[NoArgs EXCEPT !.address = a, !.data = d, !.page_size = ps,
                           !.sector_size = ss] :
               a \in SessionAddresses, d \in SessionData, ps \in 1..MaxPage,
               ss \in 1..2}
      [] operation \in {"erase-sector", "erase-block"} ->
           {[NoArgs EXCEPT !.addresses = l, !.sector_size = ss] :
               l \in SeqsUpTo({0, 2}, 2) \ {<<>>}, ss \in 1..2}
      [] operation = "protect" ->
           {[NoArgs EXCEPT !.bits = b] : b \in {<<>>, <<10>>}}

Operations == {"identify", "read", "fast-read", "program-page", "program",
               "erase-sector", "erase-block", "erase-chip", "erase-program",
               "verify", "protect"}

InitInteract ==
    /\ op \in Operations
    /\ args \in SessionArgs(op)
    /\ pc = "session"
    /\ stack = <<>>
    /\ p = NoProgram
    /\ e = NoErase
    /\ r = NoRead
    /\ w = NoWip
    /\ it = NoInteract
    /\ flash \in SessionFlash
    /\ sr \in (IF op = "protect" THEN {0, 20, 84} ELSE {0})
    /\ trace = <<>>
    /\ outcome = ""
    /\ c_in = <<>>
    /\ c_kind = ""
    /\ c_bits = <<>>
    /\ c_out = <<>>
    /\ lower = <<>>
    /\ \E frequency \in 1..MaxFrequency :
          jt = [NoLocals EXCEPT !.frequency = frequency]
    /\ spi = [entered |-> 0, last |-> 0]
    /\ g = NoRegisters
    /\ dev = NoDevice

NextInteract ==
    \/ InteractStart
    \/ EnterSpiModeLower
    \/ EnterSpiModeSir
    \/ EnterSpiModeSdr
    \/ EnterSpiModeRunTest
    \/ EnterSpiModeReturn
    \/ Wakeup
    \/ InteractProtectionCheck
    \/ InteractIdentify
    \/ InteractRead
    \/ InteractReadOutput
    \/ InteractProgramPage
    \/ InteractPageProgram
    \/ InteractProgram
    \/ InteractEraseProgram
    \/ InteractVerify
    \/ InteractVerifyCompare
    \/ InteractErase
    \/ InteractEraseLoop
    \/ InteractEraseAddress
    \/ InteractEraseChip
    \/ InteractChipErase
    \/ InteractProtect
    \/ InteractProtectWrite
    \/ ProgramLoop
    \/ ProgramPage
    \/ ProgramAdvance
    \/ EraseProgramLoop
    \/ EraseProgramSplice
    \/ EraseProgramErase
    \/ EraseProgramSectorErase
    \/ EraseProgramProgram
    \/ EraseProgramAdvance
    \/ ReadLoop
    \/ WriteEnable
    \/ PageProgram
    \/ SectorErase
    \/ BlockErase
    \/ ChipErase
    \/ WriteStatus
    \/ WipRead1
    \/ WipRead2

SpecSession == InitInteract /\ [][NextInteract]_vars

----------------------------------------------------------------------------
(* Properties of the session and of the passthrough entry                    *)

\* The bits of a value of the given width, lowest bit first.
LsbFirst(value, width) == [i \in 1..width |-> (value \div Pow2(i - 1)) % 2]

IrShift(value) ==
    <<LowerCall("enter_shift_ir", <<>>, 0),
      LowerCall("shift_tdi", LsbFirst(value, 8), 0),
      LowerCall("enter_pause_ir", <<>>, 0)>>

DrShift(bits) ==
    <<LowerCall("enter_shift_dr", <<>>, 0),
      LowerCall("shift_tdio", bits, 0),
      LowerCall("enter_pause_dr", <<>>, 0)>>

Idle(cycles) == <<LowerCall("run_test_idle", <<>>, cycles)>>

\* The transport calls of the passthrough entry at a clock of f cycles per
\* millisecond: reset, ID code, control register preload, ISC enable, erase,
\* discharge, exit, SPI passthrough.
PassthroughCalls(f) ==
    <<LowerCall("test_reset", <<>>, 0),
      LowerCall("enter_run_test_idle", <<>>, 0)>>
    \o IrShift(224) \o DrShift([i \in 1..32 |-> 0])
    \o IrShift(28) \o DrShift([i \in 1..512 |-> IF i <= 510 THEN 1 ELSE 0])
    \o IrShift(198) \o DrShift(LsbFirst(0, 8)) \o Idle(10 * f)
    \o IrShift(14) \o DrShift(LsbFirst(1, 8)) \o Idle(200 * f)
    \o IrShift(38) \o Idle(10 * f)
    \o IrShift(255) \o <<LowerCall("enter_run_test_idle", <<>>, 0)>>
    \o Idle(20 * f)
    \o IrShift(58) \o DrShift(LsbFirst(26878, 16))
    \o <<LowerCall("enter_run_test_idle", <<>>, 0)>> \o Idle(20 * f)

\* Positions of the transport log holding a call of the given name.
Calls(name) == {i \in DOMAIN lower : lower[i].call = name}

\* Position of the instruction-register shift of the given value.
IrAt(value) ==
    CHOOSE i \in Calls("shift_tdi") : lower[i].bits = LsbFirst(value, 8)

\* The first idle period after position i of the transport log.
IdleAfter(i) ==
    CHOOSE j \in Calls("run_test_idle") :
        j > i /\ \A k \in Calls("run_test_idle") : k > i => j <= k

\* C12: in every session of interact(), for every operation, the passthrough
\* entry is executed exactly once and has completed before the first SPI flash
\* command, the wakeup and the protect-bit status read included.
C12_PassthroughOnceBeforeSpi ==
    op \in Operations =>
        /\ spi.entered <= 1
        /\ Cardinality(Calls("test_reset")) <= 1
        /\ (spi.last # 0 \/ trace # <<>>) =>
              /\ spi.entered = 1
              /\ pc \notin {"session", "enter_spi_mode"}
              /\ Cardinality(Calls("test_reset")) = 1
              /\ lower[Len(lower)] = LowerCall("run_test_idle", <<>>,
                                               20 * jt.frequency)
        /\ pc \in {"interact", "operation", "done", "raised"} =>
              /\ spi.entered = 1
              /\ trace # <<>> /\ trace[1] = Cmd(CMD_WAKEUP, <<>>, 4, 0)

\* C12 witness: an erase session has entered passthrough, woken the chip and
\* read the status for the protect-bit warning.
C12_Witness ==
    /\ op = "erase-sector"
    /\ pc = "operation"
    /\ spi.entered = 1
    /\ spi.last = CMD_READ_STATUS
    /\ Len(trace) = 1

\* C13: enter_spi_mode() makes the same transport calls whatever ID code the
\* device returns: test-reset, run-test/idle, then the IR shifts E0, 1C, C6,
\* 0E, 26, FF, 3A in this order, each once; 3A and its 16-bit DR pattern come
\* after the erase (0E) and discharge (26) steps and their idle periods, and
\* the erase idle period is longer than the enable idle period.
C13_FixedSequence ==
    op \in Operations =>
        /\ pc \in {"session", "enter_spi_mode"} =>
              lower = SubSeq(PassthroughCalls(jt.frequency), 1, Len(lower))
        /\ pc \notin {"session", "enter_spi_mode"} => Len(lower) = 45
        /\ pc = "wakeup" =>
              /\ lower = PassthroughCalls(jt.frequency)
              /\ spi.entered = 1
              /\ Cardinality(Calls("shift_tdi")) = 7
              /\ \A v \in {224, 28, 198, 14, 38, 255, 58} :
                    Cardinality({i \in Calls("shift_tdi") :
                                    lower[i].bits = LsbFirst(v, 8)}) = 1
              /\ lower[1].call = "test_reset"
              /\ lower[2].call = "enter_run_test_idle"
              /\ 2 < IrAt(224) /\ IrAt(224) < IrAt(28) /\ IrAt(28) < IrAt(198)
              /\ IrAt(198) < IrAt(14) /\ IrAt(14) < IrAt(38)
              /\ IrAt(38) < IrAt(255) /\ IrAt(255) < IrAt(58)
              /\ IdleAfter(IrAt(14)) < IrAt(38)
              /\ IdleAfter(IrAt(38)) < IrAt(58)
              /\ lower[IrAt(58) + 3].call = "shift_tdio"
              /\ lower[IrAt(58) + 3].bits = LsbFirst(26878, 16)
              /\ \A i \in Calls("shift_tdio") :
                    lower[i].bits = LsbFirst(26878, 16) => i > IrAt(58)
              /\ lower[IdleAfter(IrAt(14))].count
                    > lower[IdleAfter(IrAt(198))].count
              /\ lower[IdleAfter(IrAt(14))].count = 200 * jt.frequency
              /\ lower[IdleAfter(IrAt(198))].count = 10 * jt.frequency

\* C13 witness: the sequence has run to its end for a device that returned an
\* ID code of all ones, at the higher clock rate.
C13_Witness ==
    /\ pc = "enter_spi_mode"
    /\ jt.i = Len(EnterSpiModeBody)
    /\ jt.idcode = <<255, 255, 255, 255>>
    /\ jt.frequency > 1
    /\ lower = PassthroughCalls(jt.frequency)

\* C13 witness for another device: an ID code of zero.
C13_WitnessZero ==
    /\ pc = "enter_spi_mode"
    /\ jt.i = Len(EnterSpiModeBody)
    /\ jt.idcode = <<0, 0, 0, 0>>

----------------------------------------------------------------------------
(* Properties of the mutating commands                                       *)

MutatingOpcodes == {CMD_WRITE_STATUS, CMD_SECTOR_ERASE, CMD_BLOCK_ERASE,
                    CMD_CHIP_ERASE, CMD_PAGE_PROGRAM}

\* The opcode of the mutating command whose completion is being polled.
OpcodeOf(command) ==
    CASE command = "WRITE STATUS" -> CMD_WRITE_STATUS
      [] command = "SECTOR ERASE" -> CMD_SECTOR_ERASE
      [] command = "BLOCK ERASE"  -> CMD_BLOCK_ERASE
      [] command = "CHIP ERASE"   -> CMD_CHIP_ERASE
      [] command = "PAGE PROGRAM" -> CMD_PAGE_PROGRAM
      [] OTHER -> 0

Polling == {"wip", "wip_recheck"}

\* The status byte of the most recent read of a write_in_progress() call.
LastStatus(poll) == IF poll.n = 2 THEN poll.second ELSE poll.first

\* While a mutating command polls, its opcode is the last command issued and
\* was issued once: the command before it is the write-enable.
PollsAfterOneOpcode ==
    pc \in Polling =>
        /\ Len(trace) >= 2
        /\ IsCmd(trace[Len(trace)], OpcodeOf(w.command))
        /\ OpcodeOf(w.command) \in MutatingOpcodes
        /\ ~(trace[Len(trace) - 1].k = "cmd"
             /\ trace[Len(trace) - 1].cmd \in MutatingOpcodes)

\* A step in which a mutating command returns to its caller.
ReturnsFromPoll == pc \in Polling /\ pc' \notin (Polling \cup {"raised"})

\* C14: each mutating command issues its opcode exactly once and returns only
\* after a status read made after the opcode has shown WIP clear; it never
\* returns while the most recent status read shows WIP set.
C14_ReturnsAfterWipClear ==
    /\ [](op \in Operations => PollsAfterOneOpcode)
    /\ [][(op \in Operations /\ ReturnsFromPoll) =>
             /\ w'.n >= 1
             /\ spi'.last = CMD_READ_STATUS
             /\ Bit(LastStatus(w'), 0) = 0
             /\ w'.returned = <<FALSE>>
             /\ trace' = trace
             /\ pc' = Head(stack)]_vars
    /\ [][(op \in Operations /\ pc \in Polling /\ Bit(LastStatus(w'), 0) = 1) =>
             pc' = "wip" /\ stack' = stack /\ trace' = trace]_vars

\* C14 witness: two block erases have each returned after a poll that showed
\* WIP clear.
C14_Witness ==
    /\ op = "erase-block"
    /\ pc = "erase_loop"
    /\ it.todo = <<>>
    /\ Len(args.addresses) = 2
    /\ Cardinality(Issued(CMD_BLOCK_ERASE)) = 2
    /\ w.returned = <<FALSE>>
    /\ Bit(LastStatus(w), 0) = 0

\* C15: in program(), erase_program() and the operations program-page,
\* erase-sector, erase-block, erase-chip and protect set, every mutating
\* opcode is immediately preceded by a write-enable of its own: the last SPI
\* command sent before it, status reads included, is the write-enable.
C15_WriteEnableBeforeEach ==
    /\ [](op \in Operations =>
            \A i \in DOMAIN trace :
                (trace[i].k = "cmd" /\ trace[i].cmd \in MutatingOpcodes) =>
                    /\ i > 1
                    /\ trace[i - 1] = Cmd(CMD_WRITE_ENABLE, <<>>, 0, 0))
    /\ [][(/\ op \in Operations
           /\ trace' # trace
           /\ trace'[Len(trace')].k = "cmd"
           /\ trace'[Len(trace')].cmd \in MutatingOpcodes) =>
             /\ spi.last = CMD_WRITE_ENABLE
             /\ Len(trace) >= 1
             /\ trace[Len(trace)] = Cmd(CMD_WRITE_ENABLE, <<>>, 0, 0)
             /\ trace' = Append(trace, trace'[Len(trace')])]_vars

\* C15 witness: erase_program() has erased a sector and programmed its image
\* in two pages.
C15_Witness ==
    /\ op = "erase-program"
    /\ pc = "done"
    /\ Cardinality(Issued(CMD_SECTOR_ERASE)) >= 1
    /\ Cardinality(Issued(CMD_PAGE_PROGRAM)) >= 2

\* C15 witness for a command-line operation: two sectors erased in a loop.
C15_WitnessEraseSector ==
    /\ op = "erase-sector"
    /\ pc = "done"
    /\ Cardinality(Issued(CMD_SECTOR_ERASE)) = 2

----------------------------------------------------------------------------
(* read() and fast_read() called on their own, with and without a chunk size *)

MaxRead  == 4
MaxChunk == 3

\* read(address, length, chunk_size)
Read ==
    /\ pc = "call"
    /\ op = "read()"
    /\ r' = [address |-> args.address, length |-> args.length,
             chunk_size |-> args.chunk_size, data |-> <<>>,
             cmd |-> CMD_READ, dummy |-> 0, observed |-> FALSE]
    /\ Call("read", "done")
    /\ UNCHANGED <<op, args, p, e, w, it, flash, sr, trace, outcome, codecVars,
                   jtagVars, spi, g, dev>>

\* fast_read(address, length, chunk_size)
FastRead ==
    /\ pc = "call"
    /\ op = "fast_read()"
    /\ r' = [address |-> args.address, length |-> args.length,
             chunk_size |-> args.chunk_size, data |-> <<>>,
             cmd |-> CMD_FAST_READ, dummy |-> 1, observed |-> FALSE]
    /\ Call("read", "done")
    /\ UNCHANGED <<op, args, p, e, w, it, flash, sr, trace, outcome, codecVars,
                   jtagVars, spi, g, dev>>

\* Lengths and chunk sizes of the calls: short reads with every chunk size,
\* and reads around the fallback chunk size with none given.
ReadRequests ==
    ((0..MaxRead) \X ({<<>>} \cup {<<c>> : c \in 1..MaxChunk}))
    \cup ({DEFAULT_CHUNK - 1, DEFAULT_CHUNK, DEFAULT_CHUNK + 1,
           2 * DEFAULT_CHUNK + 1} \X {<<>>})

InitRead ==
    /\ op \in {"read()", "fast_read()"}
    /\ \E a \in 0..FlashSize, req \in ReadRequests :
          args = [NoArgs EXCEPT !.address = a, !.length = req[1],
                                !.chunk_size = req[2]]
    /\ pc = "call"
    /\ stack = <<>>
    /\ p = NoProgram
    /\ e = NoErase
    /\ r = NoRead
    /\ w = NoWip
    /\ it = NoInteract
    /\ flash \in FlashContents
    /\ sr = 0
    /\ trace = <<>>
    /\ outcome = ""
    /\ c_in = <<>>
    /\ c_kind = ""
    /\ c_bits = <<>>
    /\ c_out = <<>>
    /\ lower = <<>>
    /\ jt = NoLocals
    /\ spi = [entered |-> 1, last |-> CMD_WAKEUP]
    /\ g = NoRegisters
    /\ dev = NoDevice

NextRead == Read \/ FastRead \/ ReadLoop

SpecRead == InitRead /\ [][NextRead]_vars

\* The number of bytes asked for by the commands before position i.
RECURSIVE RetBefore(_)
RetBefore(i) ==
    IF i <= 1 THEN 0 ELSE RetBefore(i - 1) + trace[i - 1].ret

\* C16: read() and fast_read() with length L and chunk size c >= 1 (255 when
\* none is given) issue read commands that each ask for at most c bytes, at
\* addresses advanced by the lengths of the chunks before, and return the
\* concatenation of the responses, L bytes in all; with L = 0 no command is
\* issued.
C16_ChunkedRead ==
    op \in {"read()", "fast_read()"} =>
        LET c == IF args.chunk_size = <<>> THEN 255 ELSE args.chunk_size[1]
            L == args.length
        IN  /\ \A i \in DOMAIN trace :
                  /\ trace[i].k = "cmd"
                  /\ trace[i].cmd = (IF op = "read()" THEN 3 ELSE 11)
                  /\ trace[i].dummy = (IF op = "read()" THEN 0 ELSE 1)
                  /\ trace[i].ret >= 1
                  /\ trace[i].ret <= c
                  /\ Len(trace[i].arg) = 3
                  /\ AddrOf(trace[i]) = args.address + RetBefore(i)
            /\ Len(r.data) = RetBefore(Len(trace) + 1)
            /\ Len(r.data) <= L
            /\ r.data = [i \in 1..Len(r.data) |-> FlashRead(args.address + i - 1)]
            /\ pc = "done" =>
                  /\ Len(r.data) = L
                  /\ L = 0 => trace = <<>>

\* C16 witness: a fast read of four bytes in chunks of three has returned
\* after two commands, the second for the one byte left.
C16_Witness ==
    /\ op = "fast_read()"
    /\ pc = "done"
    /\ args.length = 4
    /\ args.chunk_size = <<3>>
    /\ Len(trace) = 2
    /\ trace[2].ret = 1
    /\ \E i, j \in DOMAIN r.data : r.data[i] # r.data[j]

\* C16 witness without a chunk size: 256 bytes read in chunks of 255 and 1.
C16_WitnessFallback ==
    /\ op = "read()"
    /\ pc = "done"
    /\ args.chunk_size = <<>>
    /\ args.length = 256
    /\ Len(trace) = 2

\* C16 witness for a read of no bytes.
C16_WitnessEmpty ==
    /\ op = "read()" /\ pc = "done" /\ args.length = 0 /\ trace = <<>>

----------------------------------------------------------------------------
(* Properties of a fault in the middle of a bulk operation                   *)

\* The chip content that the commands of the trace up to position i make of
\* the content f.
RECURSIVE Replay(_, _)
Replay(f, i) ==
    IF i = 0 THEN f
    ELSE LET before == Replay(f, i - 1)
             c == trace[i]
         IN  IF IsCmd(c, CMD_PAGE_PROGRAM)
             THEN FlashProgram(before, AddrOf(c), DataOf(c))
             ELSE IF IsCmd(c, CMD_SECTOR_ERASE)
             THEN FlashSectorErase(before, AddrOf(c), args.sector_size)
             ELSE before

\* C17: when the status poll raises during a chunk of program() or
\* erase_program(), the operation ends there: the failed opcode, issued once
\* after its write-enable and the chunk's progress callback, is the last
\* entry of the trace, no completion callback follows, no step is taken
\* afterwards, and the chip holds what the commands issued before made of it.
C17_FaultAborts ==
    /\ []((w.raised /\ op \in {"program", "erase-program"}) =>
            /\ pc = "raised"
            /\ spi.last = CMD_READ_STATUS
            /\ Len(trace) >= 3
            /\ IsCmd(trace[Len(trace)], OpcodeOf(w.command))
            /\ OpcodeOf(w.command) \in {CMD_PAGE_PROGRAM, CMD_SECTOR_ERASE}
            /\ trace[Len(trace) - 1] = Cmd(CMD_WRITE_ENABLE, <<>>, 0, 0)
            /\ IsCb(trace[Len(trace) - 2])
            /\ trace[Len(trace) - 2].status # "None"
            /\ \E f \in FlashContents : flash = Replay(f, Len(trace))
            /\ op = "program" =>
                  /\ Cardinality(Issued(CMD_PAGE_PROGRAM)) =
                        Cardinality({i \in DOMAIN trace : IsCb(trace[i])})
                  /\ \A i \in DOMAIN trace : IsCb(trace[i]) => trace[i].status # "None"
                  /\ \E f \in FlashContents :
                        \A a \in DOMAIN flash :
                            /\ (a >= args.address /\ a < p.address) =>
                                  flash[a] = BitAnd(f[a],
                                               args.data[a - args.address + 1])
                            /\ (a < args.address
                                \/ a >= p.address + Len(p.chunk)) =>
                                  flash[a] = f[a])
    /\ [][~w.raised]_vars

\* C17 witness: erase_program() has failed while programming the image of its
\* second sector, after the first sector was erased and programmed.
C17_Witness ==
    /\ op = "erase-program"
    /\ w.raised
    /\ w.command = "PAGE PROGRAM"
    /\ e.done > 0
    /\ Len(e.sectors) = 2
    /\ Cardinality(Issued(CMD_PAGE_PROGRAM)) >= 2

\* C17 witness for program(): the fault came in the second chunk.
C17_WitnessProgram ==
    /\ op = "program"
    /\ w.raised
    /\ p.done > 0
    /\ Len(p.data) > 0

----------------------------------------------------------------------------
(* The mutating commands called on their own, and their completion poll      *)

\* The position at which each command starts.
MutatingCommands ==
    [c \in {"write_status()", "sector_erase()", "block_erase()",
            "chip_erase()", "page_program()"} |->
        CASE c = "write_status()" -> "write_status"
          [] c = "sector_erase()" -> "sector_erase"
          [] c = "block_erase()"  -> "block_erase"
          [] c = "chip_erase()"   -> "chip_erase"
          [] c = "page_program()" -> "page_program"]

InitPoll ==
    /\ op \in DOMAIN MutatingCommands
    /\ \E ss \in 1..MaxSector : args = [NoArgs EXCEPT !.sector_size = ss]
    /\ pc = MutatingCommands[op]
    /\ stack = <<"done">>
    /\ p = NoProgram
    /\ e = NoErase
    /\ r = NoRead
    /\ \E a \in 0..(FlashSize - 1), d \in SeqsUpTo(ByteValues, 1) :
          w = [NoWip EXCEPT
                 !.address = IF op \in {"write_status()", "chip_erase()"}
                             THEN 0 ELSE a,
                 !.data = IF op = "write_status()" THEN <<a * 4>>
                          ELSE IF op = "page_program()" THEN d ELSE <<>>]
    /\ it = NoInteract
    /\ flash \in FlashContents
    /\ sr = 0
    /\ trace = <<>>
    /\ outcome = ""
    /\ c_in = <<>>
    /\ c_kind = ""
    /\ c_bits = <<>>
    /\ c_out = <<>>
    /\ lower = <<>>
    /\ jt = NoLocals
    /\ spi = [entered |-> 1, last |-> CMD_WRITE_ENABLE]
    /\ g = NoRegisters
    /\ dev = NoDevice

NextPoll ==
    \/ WriteStatus
    \/ SectorErase
    \/ BlockErase
    \/ ChipErase
    \/ PageProgram
    \/ WipRead1
    \/ WipRead2

\* A status read in which the chip reports WIP clear and WEL clear.
ReportsIdle ==
    /\ WipRead1
    /\ Bit(w'.first, 0) = 0
    /\ Bit(w'.first, 1) = 0

\* The coroutine keeps running, and the chip, polled again and again, at some
\* time reports that it is idle.
SpecPoll ==
    InitPoll /\ [][NextPoll]_vars /\ WF_vars(NextPoll) /\ SF_vars(ReportsIdle)

\* C18: the completion poll has no timeout and no retry bound: a status read
\* that shows WIP set always leads to another poll, without a return or a
\* fault, however many polls came before; a read that shows WIP clear and WEL
\* clear ends the command normally, so a command whose chip at some time
\* reports idle terminates.
C18_UnboundedPoll ==
    /\ [][(pc \in Polling /\ Bit(LastStatus(w'), 0) = 1) =>
             /\ pc' = "wip"
             /\ stack' = stack
             /\ ~w'.raised
             /\ outcome' = outcome
             /\ flash' = flash]_vars
    /\ [][(pc \in Polling /\ Bit(LastStatus(w'), 0) = 0
                          /\ Bit(LastStatus(w'), 1) = 0) =>
             /\ pc' = "done"
             /\ stack' = <<>>
             /\ ~w'.raised
             /\ outcome' = ""]_vars
    /\ (pc \in Polling) ~> (pc \in {"done", "raised"})
    /\ [](pc = "done" => (w.n >= 1 /\ Bit(LastStatus(w), 0) = 0))

\* C18 witness: a chip erase is polling again after a status read that showed
\* WIP set.
C18_Witness ==
    /\ op = "chip_erase()"
    /\ pc = "wip"
    /\ w.n = 1
    /\ Bit(w.first, 0) = 1
    /\ trace = <<Cmd(CMD_CHIP_ERASE, <<>>, 0, 0)>>

\* C18 witness of the normal end: WIP set first, then idle.
C18_WitnessDone ==
    /\ op = "page_program()"
    /\ pc = "done"
    /\ w.n = 1
    /\ Bit(w.first, 0) = 0 /\ Bit(w.first, 1) = 0

----------------------------------------------------------------------------
(* The I2C register file (gateware/registers.py).  One step is one clock     *)
(* cycle: the I2C slave presents its strobes and the byte received, the      *)
(* combinatorial outputs follow, and the synchronous statements give the     *)
(* next values of the signals.  g.regs[i + 1] is register i.  g.after_start  *)
(* records that a start condition was seen and no address byte has been      *)
(* accepted since.                                                           *)

MaxRegs == 9

\* The numbers of leading registers added with add_rw(); the others are added
\* with add_ro().  The testbench adds two and then one.
Writable == {0, 1, 2}

\* self.address = Signal(max=8): the address signal holds values below 8.
AddressMax == 8

\* Bytes the slave receives: register numbers, numbers past the last register
\* and a data pattern.
RegBytes == {0, 1, 2, 5, 8, 90, 165}

\* Mutant: the register count itself passes as an address.
AddressValidInclusive(data_i, reg_count) == data_i <= reg_count

\* self.i2c_slave.data_i < self.reg_count
AddressValid(data_i, reg_count) == data_i < reg_count

\* Mutant: only data bytes are acknowledged.
AckDataOnly(write, latch_addr, data_i, reg_count) ==
    IF write = 1 /\ latch_addr = 0 THEN 1 ELSE 0

\* The combinatorial statements driving ack_o.
Ack(write, latch_addr, data_i, reg_count) ==
    IF write = 1
    THEN IF latch_addr = 1 /\ AddressValid(data_i, reg_count) THEN 1
         ELSE IF latch_addr = 0 THEN 1
         ELSE 0
    ELSE 0

\* The strobes <<start, write, read>> of the I2C slave in one cycle: a start
\* condition, the end of a received byte and the fetch of a byte to send are
\* different events on the bus.
Strobes == {<<0, 0, 0>>, <<1, 0, 0>>, <<0, 1, 0>>, <<0, 0, 1>>}

\* The place in an Array that a signal selects: migen lowers the selection to
\* a case statement whose default is the last element.
Selected(array, index) == IF index < Len(array) THEN index + 1 ELSE Len(array)

\* Mutant: a data byte lands in the register after the addressed one.
StoreNext(regs, kinds, address, data_i) ==
    LET next == ((address + 1) % Len(regs)) + 1
    IN  IF kinds[next] = "rw" THEN [regs EXCEPT ![next] = data_i] ELSE regs

\* self.regs_w[self.address].eq(data_i): regs_w holds the register itself for
\* add_rw() and a signal nothing reads for add_ro().
Store(regs, kinds, address, data_i) ==
    IF kinds[Selected(regs, address)] = "rw"
    THEN [regs EXCEPT ![Selected(regs, address)] = data_i]
    ELSE regs

\* Mutant: the slave is always offered register 0.
DataOFirst(regs, address) == regs[1]

\* data_o.eq(self.regs_r[self.address])
DataO(regs, address) == regs[Selected(regs, address)]

\* One clock cycle of Registers.do_finalize().  Later synchronous statements
\* take precedence over earlier ones.  g.selected is the last address byte
\* accepted.
RegistersClock ==
    /\ pc = "registers"
    /\ \E strobe \in Strobes :
       \E byte \in IF strobe[2] = 1 THEN RegBytes ELSE {0} :
          LET start == strobe[1]
              write == strobe[2]
              data_i == byte
              latching == write = 1 /\ g.latch_addr = 1
              accept == latching /\ AddressValid(data_i, g.reg_count)
              store == write = 1 /\ g.latch_addr = 0
              address == IF accept THEN data_i % AddressMax ELSE g.address
              regs == IF store THEN Store(g.regs, g.kinds, g.address, data_i)
                      ELSE g.regs
          IN  g' = [g EXCEPT
                      !.start = start,
                      !.write = write,
                      !.read = strobe[3],
                      !.data_i = data_i,
                      !.ack_o = Ack(write, g.latch_addr, data_i, g.reg_count),
                      !.latch_addr = IF accept THEN 0
                                     ELSE IF start = 1 THEN 1
                                     ELSE g.latch_addr,
                      !.address = address,
                      !.regs = regs,
                      !.data_o = DataO(regs, address),
                      !.after_start =
                          IF start = 1 THEN TRUE
                          ELSE IF write = 1 /\ g.after_start
                                  /\ data_i < g.reg_count THEN FALSE
                          ELSE g.after_start,
                      !.selected =
                          IF write = 1 /\ g.after_start
                             /\ data_i < g.reg_count THEN data_i
                          ELSE g.selected]
    /\ UNCHANGED <<op, args, pc, stack, p, e, r, w, it, flash, sr, trace,
                   outcome, codecVars, jtagVars, spi, dev>>

\* A cycle without strobes in which the logic that owns the last register,
\* added with add_ro(), gives it a new value (test_data_read, line 142).
RegistersDrive ==
    /\ pc = "registers"
    /\ g.kinds[g.reg_count] = "ro"
    /\ \E byte \in RegBytes :
          LET regs == [g.regs EXCEPT ![g.reg_count] = byte]
          IN  g' = [g EXCEPT !.start = 0, !.write = 0, !.read = 0,
                             !.data_i = 0, !.ack_o = 0,
                             !.regs = regs,
                             !.data_o = DataO(regs, g.address)]
    /\ UNCHANGED <<op, args, pc, stack, p, e, r, w, it, flash, sr, trace,
                   outcome, codecVars, jtagVars, spi, dev>>

InitRegisters ==
    /\ op = "registers"
    /\ args = NoArgs
    /\ pc = "registers"
    /\ stack = <<>>
    /\ p = NoProgram
    /\ e = NoErase
    /\ r = NoRead
    /\ w = NoWip
    /\ it = NoInteract
    /\ flash = [a \in 0..(FlashSize - 1) |-> Erased]
    /\ sr = 0
    /\ trace = <<>>
    /\ outcome = ""
    /\ c_in = <<>>
    /\ c_kind = ""
    /\ c_bits = <<>>
    /\ c_out = <<>>
    /\ lower = <<>>
    /\ jt = NoLocals
    /\ spi = [entered |-> 0, last |-> 0]
    /\ dev = NoDevice
    /\ \E n \in 1..MaxRegs, writable \in Writable :
          g = [NoRegisters EXCEPT
                  !.reg_count = n,
                  !.kinds = [i \in 1..n |->
                                IF i <= writable THEN "rw" ELSE "ro"],
                  !.regs = [i \in 1..n |-> 0]]

NextRegisters == RegistersClock \/ RegistersDrive

SpecRegisters == InitRegisters /\ [][NextRegisters]_vars

\* A cycle in which a byte is written while an address byte is expected.
AddressByteCycle == op = "registers" /\ g'.write = 1 /\ g.after_start

\* C19: after a start condition, the first written byte whose value is less
\* than the number of registers is acknowledged and becomes the current
\* register address.
C19_AddressWriteAck ==
    /\ [](op = "registers" => (g.after_start <=> g.latch_addr = 1))
    /\ [][(AddressByteCycle /\ g'.data_i < g.reg_count) =>
             /\ g'.ack_o = 1
             /\ g'.address = g'.data_i
             /\ ~g'.after_start]_vars

\* C19, for the bytes the address signal can hold: such a byte is
\* acknowledged, becomes the register address and ends the address phase.
C19_AddressWriteAckNarrow ==
    /\ [](op = "registers" => (g.after_start <=> g.latch_addr = 1))
    /\ [][(AddressByteCycle /\ g'.data_i < g.reg_count) =>
             /\ g'.ack_o = 1
             /\ (g'.data_i < AddressMax => g'.address = g'.data_i)
             /\ ~g'.after_start]_vars

\* The cycle of test_address_write_ack: with three registers, byte 1 written
\* after a start has been acknowledged and latched as the address.
C19_Witness ==
    /\ op = "registers"
    /\ g.reg_count = 3
    /\ g.write = 1
    /\ g.data_i = 1
    /\ g.ack_o = 1
    /\ g.address = 1
    /\ g.latch_addr = 0

\* With nine registers, byte 8 written after a start has been acknowledged
\* and the address signal holds 0.
C19_WitnessTruncated ==
    /\ op = "registers"
    /\ g.reg_count = 9
    /\ g.write = 1
    /\ g.data_i = 8
    /\ g.ack_o = 1
    /\ g.address = 0
    /\ g.latch_addr = 0

\* C20: after a start condition, a written address byte whose value is not
\* less than the number of registers is not acknowledged, leaves the current
\* register address and every register unchanged, and the module still
\* expects an address byte.
C20_AddressWriteNak ==
    [][(AddressByteCycle /\ g'.data_i >= g.reg_count) =>
          /\ g'.ack_o = 0
          /\ g'.address = g.address
          /\ g'.regs = g.regs
          /\ g'.latch_addr = 1
          /\ g'.after_start]_vars

\* C20 witness: with address 1 latched and data stored by an earlier
\* transaction, a new start was followed by byte 5, which was refused.
C20_Witness ==
    /\ op = "registers"
    /\ g.reg_count = 3
    /\ g.kinds = <<"rw", "rw", "ro">>
    /\ g.write = 1
    /\ g.data_i = 5
    /\ g.ack_o = 0
    /\ g.address = 1
    /\ g.regs[2] = 165
    /\ g.latch_addr = 1

\* A cycle in which a byte is written after an address byte was accepted in
\* the same transaction.
DataByteCycle ==
    op = "registers" /\ g'.write = 1 /\ ~g.after_start /\ g.selected >= 0

\* C21: once a valid address byte has been accepted, every following written
\* byte of the transaction is acknowledged and stored into the read-write
\* register at the latched address; the address does not advance and every
\* other register keeps its value.
C21_DataWrite ==
    /\ [](op = "registers" =>
             /\ g.address < g.reg_count
             /\ (g.selected >= 0 /\ ~g.after_start) => g.latch_addr = 0)
    /\ [][DataByteCycle =>
             /\ g'.ack_o = 1
             /\ g'.address = g.address
             /\ ~g'.after_start
             /\ \A i \in 1..g.reg_count :
                   g'.regs[i] = IF i = g.address + 1 /\ g.kinds[i] = "rw"
                                THEN g'.data_i
                                ELSE g.regs[i]]_vars

\* The end of test_data_write: with address 1 latched, byte 90 has been
\* written and acknowledged, register 1 holds it and register 0 holds 0.
C21_Witness ==
    /\ op = "registers"
    /\ g.kinds = <<"rw", "rw", "ro">>
    /\ g.selected = 1
    /\ g.address = 1
    /\ ~g.after_start
    /\ g.write = 1
    /\ g.data_i = 90
    /\ g.ack_o = 1
    /\ g.regs[2] = 90
    /\ g.regs[1] = 0

\* A data byte written while a read-only register is addressed has been
\* acknowledged and the register keeps the value its owner gave it.
C21_WitnessReadOnly ==
    /\ op = "registers"
    /\ g.kinds = <<"rw", "rw", "ro">>
    /\ g.selected = 2
    /\ g.address = 2
    /\ ~g.after_start
    /\ g.write = 1
    /\ g.data_i = 90
    /\ g.ack_o = 1
    /\ g.regs[3] = 165

\* C22: after an address byte a has been accepted and a repeated start with
\* read direction follows, the octet offered to the master is the current
\* value of register a, for read-only and read-write registers alike.
C22_DataRead ==
    (op = "registers" /\ g.read = 1 /\ g.after_start /\ g.selected >= 0) =>
        g.data_o = g.regs[g.selected + 1]

\* C22, for the addresses the address signal can hold.
C22_DataReadNarrow ==
    (op = "registers" /\ g.read = 1 /\ g.after_start /\ g.selected >= 0) =>
        /\ g.data_o = g.regs[g.address + 1]
        /\ g.selected < AddressMax => g.address = g.selected

\* The read of test_data_read: address 2 was accepted, a start followed, and
\* the slave fetches the value 165 of the read-only register 2.
C22_Witness ==
    /\ op = "registers"
    /\ g.kinds = <<"rw", "rw", "ro">>
    /\ g.selected = 2
    /\ g.after_start
    /\ g.read = 1
    /\ g.regs[3] = 165
    /\ g.data_o = 165

\* With nine registers, address 8 was accepted, a start followed, and the
\* slave fetches the value of register 0 while register 8 holds 165.
C22_WitnessTruncated ==
    /\ op = "registers"
    /\ g.reg_count = 9
    /\ g.selected = 8
    /\ g.after_start
    /\ g.read = 1
    /\ g.regs[9] = 165
    /\ g.regs[1] = 0
    /\ g.data_o = 0

----------------------------------------------------------------------------
(* Properties of erase_program(): the image written and the sector base *)

\* The content f with the bytes from address on replaced by data.
Replaced(f, address, data) ==
    [a \in DOMAIN f |->
        IF a >= address /\ a < address + Len(data)
        THEN data[a - address + 1]
        ELSE f[a]]

IsPowerOfTwo(n) == \E k \in 0..MaxSector : n = Pow2(k)

\* C24: a completed erase_program() leaves the flash equal to its prior
\* content with exactly the bytes [address, address + len(data)) replaced by
\* data.
C24_ReadModifyWrite ==
    (op = "erase-program" /\ pc = "done") =>
        flash = Replaced(args.prior, args.address, args.data)

\* C24, for sector sizes that are powers of two and sector images that the
\* pattern matches only when every byte is 0xFF.
C24_ReadModifyWriteNarrow ==
    (/\ op = "erase-program"
     /\ pc = "done"
     /\ IsPowerOfTwo(args.sector_size)
     /\ \A i \in DOMAIN e.sectors :
           e.sectors[i].programmed
           \/ \A j \in DOMAIN e.sectors[i].image :
                 e.sectors[i].image[j] = Erased) =>
        flash = Replaced(args.prior, args.address, args.data)

\* A completed erase_program() with sector size 2 whose data ends a sector
\* with a newline after 0xFF bytes: the sector was erased and not programmed,
\* and the chip holds 0xFF where the newline was to be written.
C24_WitnessNewline ==
    /\ op = "erase-program"
    /\ pc = "done"
    /\ args.sector_size = 2
    /\ \E a \in DOMAIN flash :
          /\ a >= args.address
          /\ a < args.address + Len(args.data)
          /\ args.data[a - args.address + 1] = Newline
          /\ flash[a] = Erased

\* A completed erase_program() over parts of two sectors of a chip that was
\* not erased: the bytes around the data are the prior ones.
C24_Witness ==
    /\ op = "erase-program"
    /\ pc = "done"
    /\ args.sector_size = 2
    /\ args.address = 1
    /\ Len(args.data) = 2
    /\ Len(e.sectors) = 2
    /\ flash[0] = OrdinaryByte
    /\ flash[1] = args.data[1]
    /\ flash[2] = args.data[2]
    /\ flash[1] # args.prior[1]
    /\ flash = Replaced(args.prior, args.address, args.data)

\* The steps of erase_program() between the computation of sector_start and
\* the advance of the address.
InSector == pc \in {"ep_splice", "ep_erase", "ep_sector_erase", "ep_program"}

\* C25: for every address and every sector size >= 1, the sector base that
\* erase_program() uses for read-back, sector erase and programming of a chunk
\* is chunk_address - (chunk_address mod sector_size).
C25_SectorBase ==
    /\ (op = "erase-program" /\ InSector) =>
          e.sector_start = e.address - (e.address % args.sector_size)
    /\ op = "erase-program" =>
          \A i \in DOMAIN e.sectors :
              e.sectors[i].start =
                 e.sectors[i].address
                    - (e.sectors[i].address % args.sector_size)

\* C25, for sector sizes that are powers of two.
C25_SectorBasePowerOfTwo ==
    (op = "erase-program" /\ InSector /\ IsPowerOfTwo(args.sector_size)) =>
        /\ e.sector_start = e.address - (e.address % args.sector_size)
        /\ pc = "ep_splice" =>
              IsCmd(trace[Len(trace)], CMD_READ)
              /\ AddrOf(trace[Len(trace)]) = e.sector_start
        /\ pc = "ep_program" =>
              IsCmd(trace[Len(trace)], CMD_SECTOR_ERASE)
              /\ AddrOf(trace[Len(trace)]) = e.sector_start

\* erase_program(address=3, sector_size=3) is about to erase: the chunk lies
\* in the sector at 3 and the base computed is 1.
C25_WitnessOddSize ==
    /\ op = "erase-program"
    /\ pc = "ep_sector_erase"
    /\ args.sector_size = 3
    /\ e.address = 3
    /\ e.sector_start = 1

----------------------------------------------------------------------------
(* Properties of write_in_progress(): the number of status reads *)

\* The status read a call of write_in_progress() made last.
MostRecent == IF w.n = 2 THEN w.second ELSE w.first

\* C27: write_in_progress() issues exactly one status read when the first
\* read is not (WEL set and WIP clear) and exactly two otherwise, never more;
\* when it returns, its result is the WIP bit of the most recent status read.
C27_StatusReads ==
    /\ [](/\ w.n \in 0..2
          /\ pc = "wip_recheck" => (w.n = 1 /\ ShowsWelOnly(w.first))
          /\ w.raised => w.n = 2
          /\ w.returned # <<>> =>
                /\ w.n = (IF ShowsWelOnly(w.first) THEN 2 ELSE 1)
                /\ w.returned = <<Bit(MostRecent, 0) = 1>>)
    /\ [][pc = "wip" =>
             /\ spi'.last = CMD_READ_STATUS
             /\ w'.n = 1
             /\ (pc' = "wip_recheck" <=> ShowsWelOnly(w'.first))
             /\ pc' # "wip_recheck" => w'.returned # <<>>]_vars
    /\ [][pc = "wip_recheck" =>
             /\ spi'.last = CMD_READ_STATUS
             /\ w'.n = 2
             /\ pc' # "wip_recheck"
             /\ (w'.raised \/ w'.returned # <<>>)]_vars

\* A call has returned TRUE after two reads: the first showed WEL set and WIP
\* clear, the second showed WIP set.
C27_Witness ==
    /\ w.n = 2
    /\ w.returned = <<TRUE>>
    /\ ShowsWelOnly(w.first)
    /\ Bit(w.second, 0) = 1
    /\ pc = "wip"

\* A call has returned FALSE after one read that showed WEL and WIP clear.
C27_WitnessOneRead ==
    /\ w.n = 1
    /\ w.returned = <<FALSE>>
    /\ Bit(w.first, 1) = 0
    /\ pc = "done"

----------------------------------------------------------------------------
(* Properties of program(): the partition of the data *)

\* The page-program commands issued so far, in order.
PagePrograms == SelectSeq(trace, LAMBDA x : IsCmd(x, CMD_PAGE_PROGRAM))

\* The data of the first k page-program commands, joined.
RECURSIVE Joined(_)
Joined(k) == IF k = 0 THEN <<>> ELSE Joined(k - 1) \o DataOf(PagePrograms[k])

\* C26: the page-program commands issued by program(address, data, page_size)
\* partition the data in order: the first chunk starts at address with length
\* min(len(data), page_size - address mod page_size), each later chunk starts
\* where the previous one ended and is a full page except possibly the last,
\* the chunks joined are the data, and there are finitely many chunks (each is
\* non-empty, so at most len(data)).
C26_Partition ==
    op = "program" =>
       LET n == Len(PagePrograms)
           chunk(k) == DataOf(PagePrograms[k])
           start(k) == AddrOf(PagePrograms[k])
       IN  /\ n <= Len(args.data)
           /\ n >= 1 =>
                 /\ start(1) = args.address
                 /\ Len(chunk(1)) =
                       Min(Len(args.data),
                           args.page_size - (args.address % args.page_size))
           /\ \A k \in 2..n :
                 /\ start(k) = start(k - 1) + Len(chunk(k - 1))
                 /\ start(k) % args.page_size = 0
                 /\ Len(chunk(k)) =
                       Min(args.page_size,
                           Len(args.data) - Len(Joined(k - 1)))
           /\ \A k \in 1..n : Len(chunk(k)) >= 1
           /\ Joined(n) = Take(args.data, Len(Joined(n)))
           /\ pc = "done" => Joined(n) = args.data

\* program() has finished a request that starts inside a page: a short first
\* chunk up to the page boundary, then a full page.
C26_Witness ==
    /\ op = "program"
    /\ pc = "done"
    /\ args.page_size = 2
    /\ args.address % 2 = 1
    /\ Len(PagePrograms) = 2
    /\ Len(DataOf(PagePrograms[1])) = 1
    /\ Len(DataOf(PagePrograms[2])) = 2

\* program() has finished a request that starts at a page boundary: a full
\* page, then a short last chunk.
C26_WitnessShortLast ==
    /\ op = "program"
    /\ pc = "done"
    /\ args.page_size = 2
    /\ args.address % 2 = 0
    /\ Len(PagePrograms) = 2
    /\ Len(DataOf(PagePrograms[2])) = 1

\* program() has finished a request of three bytes with page size 1.
C26_WitnessPageSizeOne ==
    /\ op = "program"
    /\ pc = "done"
    /\ args.page_size = 1
    /\ Len(PagePrograms) = 3

----------------------------------------------------------------------------
(* Properties of the progress reports of program() and erase_program() *)

\* The reports the caller's callback received so far, in order.
Reports == SelectSeq(trace, IsCb)

\* The reports with status None.
CompletionReports == {i \in DOMAIN Reports : Reports[i].status = "None"}

\* The sectors whose image erase_program() has handed to program().
ProgrammedSectors == {i \in DOMAIN e.sectors : e.sectors[i].programmed}

Completed == op \in {"program", "erase-program"} /\ pc = "done"

\* C28: in every completed execution of program() and of erase_program() the
\* callback receives exactly one report with status None, and that report is
\* the last callback of the operation, issued after the last SPI command.
C28_OneCompletionReport ==
    Completed =>
       /\ Cardinality(CompletionReports) = 1
       /\ IsCb(trace[Len(trace)])
       /\ trace[Len(trace)].status = "None"

\* C28, counting the reports the nested program() calls make: one report with
\* status None for each sector image programmed and one at the end, which is
\* the last entry; program() alone makes exactly one.
C28_CompletionReportPerProgram ==
    Completed =>
       /\ Cardinality(CompletionReports) =
             IF op = "program" THEN 1
             ELSE 1 + Cardinality(ProgrammedSectors)
       /\ IsCb(trace[Len(trace)])
       /\ trace[Len(trace)] =
             Cb(Len(args.data), Len(args.data), "None", 0)

\* program() over several pages has completed with one report of status
\* None, the last entry.
C28_Witness ==
    /\ op = "program"
    /\ pc = "done"
    /\ Len(PagePrograms) >= 2
    /\ Cardinality(CompletionReports) = 1

\* erase_program() over two sectors, both programmed, has completed: the
\* callback received three reports with status None.
C28_WitnessNested ==
    /\ op = "erase-program"
    /\ pc = "done"
    /\ Cardinality(ProgrammedSectors) = 2
    /\ Cardinality(CompletionReports) = 3

\* C29: every progress report (done, total, status) of program() and
\* erase_program() satisfies 0 <= done <= total with total = len(data), and
\* done never decreases from one report to the next; the reports forwarded
\* from the nested program() calls stay within the outer total.
C29_ReportsWithinTotal ==
    op \in {"program", "erase-program"} =>
       /\ \A i \in DOMAIN Reports :
             /\ Reports[i].total = Len(args.data)
             /\ 0 <= Reports[i].done
             /\ Reports[i].done <= Reports[i].total
       /\ \A i \in 2..Len(Reports) : Reports[i - 1].done <= Reports[i].done

\* C29, for program() alone and for the reports erase_program() makes itself.
C29_OwnReportsWithinTotal ==
    /\ op = "program" =>
          /\ \A i \in DOMAIN Reports :
                /\ Reports[i].total = Len(args.data)
                /\ 0 <= Reports[i].done
                /\ Reports[i].done <= Reports[i].total
          /\ \A i \in 2..Len(Reports) : Reports[i - 1].done <= Reports[i].done
    /\ op = "erase-program" =>
          \A i \in DOMAIN Reports :
             /\ Reports[i].total = Len(args.data)
             /\ 0 <= Reports[i].done
             /\ Reports[i].done <= Reports[i].total + args.sector_size
             /\ Reports[i].status = "erasing sector" =>
                   Reports[i].done <= Reports[i].total

\* erase_program() of one byte into a sector of two has completed: a report
\* forwarded from the nested program() carried done = 2 with total = 1, and
\* the last report carries done = 1.
C29_WitnessNested ==
    /\ op = "erase-program"
    /\ pc = "done"
    /\ Len(args.data) = 1
    /\ args.sector_size = 2
    /\ \E i \in DOMAIN Reports : Reports[i].done = 2 /\ Reports[i].total = 1
    /\ Reports[Len(Reports)].done = 1

\* program() over several pages has completed with reports that rise from 0
\* to the total.
C29_Witness ==
    /\ op = "program"
    /\ pc = "done"
    /\ Len(Reports) >= 3
    /\ Reports[1].done = 0
    /\ Reports[Len(Reports)].done = Len(args.data)

----------------------------------------------------------------------------
(* The device object (target/device.py): I/O port operations and EEPROM      *)
(* access.  dev.usb is the list of USB control transfers made, in order.     *)

REQ_EEPROM == 16
REQ_FPGA_CFG == 17
REQ_STATUS == 18
REQ_IO_VOLT == 20
REQ_SENSE_VOLT == 21
REQ_ALERT_VOLT == 22
REQ_BITSTREAM_ID == 24
REQ_LIMIT_VOLT == 32

ST_ERROR == 1
IO_BUF_A == 1
IO_BUF_B == 2

\* The longest port specification given.
MaxSpec == 2

\* A control transfer: direction, bRequest, wValue, wIndex, the number of
\* bytes carried, and the place of those bytes in the caller's data.
Transfer(dir, req, value, index, length, offset) ==
    [dir |-> dir, req |-> req, value |-> value, index |-> index,
     length |-> length, offset |-> offset]

\* The operations that take a port specification, with the request each one
\* sends, the bytes it reads back and whether it wants exactly one port.
PortOperations ==
    [name \in {"get_voltage", "get_voltage_limit", "measure_voltage",
               "get_alert", "set_voltage", "set_voltage_limit"} |->
        CASE name = "get_voltage"       -> [req |-> REQ_IO_VOLT, ret |-> 2, one |-> TRUE]
          [] name = "get_voltage_limit" -> [req |-> REQ_LIMIT_VOLT, ret |-> 2, one |-> TRUE]
          [] name = "measure_voltage"   -> [req |-> REQ_SENSE_VOLT, ret |-> 2, one |-> TRUE]
          [] name = "get_alert"         -> [req |-> REQ_ALERT_VOLT, ret |-> 4, one |-> TRUE]
          [] name = "set_voltage"       -> [req |-> REQ_IO_VOLT, ret |-> 0, one |-> FALSE]
          [] name = "set_voltage_limit" -> [req |-> REQ_LIMIT_VOLT, ret |-> 0, one |-> FALSE]]

OnePortOperations == {name \in DOMAIN PortOperations : PortOperations[name].one}

\* The letters a specification is written with.
Ports == {"A", "B", "C"}

\* The specifications given: a string of letters, or a list of one-letter
\* strings.
PortSpecs ==
    {[form |-> form, ports |-> ports] :
        form \in {"str", "list"}, ports \in SeqsUpTo(Ports, MaxSpec)}

\* repr() of a list of one-letter strings, character by character.
RECURSIVE ListItems(_)
ListItems(ports) ==
    IF ports = <<>> THEN <<>>
    ELSE <<"'", Head(ports), "'">>
         \o (IF Len(ports) > 1 THEN <<",", " ">> ELSE <<>>)
         \o ListItems(Tail(ports))

\* str(spec): a string is itself, a list is written with brackets and quotes.
Str(spec) ==
    IF spec.form = "str" THEN spec.ports
    ELSE <<"[">> \o ListItems(spec.ports) \o <<"]">>

\* Mutant: the number of ports is never tested.
LengthAccepted(one, spec) == FALSE

\* if one and len(spec) != 1
LengthRejected(one, spec) == one /\ Len(spec.ports) # 1

\* The argument list of control_read()/control_write() is evaluated: the
\* mask is computed before the transfer is made.
DevicePortOperation ==
    /\ pc = "device"
    /\ op \in DOMAIN PortOperations
    /\ dev' = [dev EXCEPT !.req = PortOperations[op].req,
                          !.ret = PortOperations[op].ret,
                          !.one = PortOperations[op].one]
    /\ Call("iobuf_spec_to_mask",
            IF PortOperations[op].ret > 0 THEN "control_read"
            ELSE "control_write")
    /\ UNCHANGED <<op, args, p, e, r, w, it, flash, sr, trace, outcome,
                   codecVars, jtagVars, spi, g>>

\* _iobuf_spec_to_mask(): the test of the length, then mask = 0.
SpecToMaskLength ==
    /\ pc = "iobuf_spec_to_mask"
    /\ IF LengthRejected(dev.one, args.spec)
       THEN /\ Raise("Exactly one I/O port may be specified for this operation")
            /\ dev' = dev
       ELSE /\ dev' = [dev EXCEPT !.mask = 0, !.i = 1,
                                  !.chars = Str(args.spec)]
            /\ pc' = "iobuf_port"
            /\ UNCHANGED <<stack, outcome>>
    /\ UNCHANGED <<op, args, p, e, r, w, it, flash, sr, trace,
                   codecVars, jtagVars, spi, g>>

\* _iobuf_spec_to_mask(): one turn of the loop over str(spec), or the return
\* of the mask.
SpecToMaskPort ==
    /\ pc = "iobuf_port"
    /\ IF dev.i > Len(dev.chars)
       THEN /\ Return
            /\ UNCHANGED <<dev, outcome>>
       ELSE LET port == dev.chars[dev.i] IN
            IF port = "A"
            THEN /\ dev' = [dev EXCEPT !.mask = BitOr(dev.mask, IO_BUF_A),
                                       !.i = dev.i + 1]
                 /\ UNCHANGED <<pc, stack, outcome>>
            ELSE IF port = "B"
            THEN /\ dev' = [dev EXCEPT !.mask = BitOr(dev.mask, IO_BUF_B),
                                       !.i = dev.i + 1]
                 /\ UNCHANGED <<pc, stack, outcome>>
            ELSE /\ Raise("Unknown I/O port")
                 /\ dev' = dev
    /\ UNCHANGED <<op, args, p, e, r, w, it, flash, sr, trace,
                   codecVars, jtagVars, spi, g>>

\* control_read(REQUEST_TYPE_VENDOR, req, 0, mask, ret): the device answers,
\* or stalls the transfer and the operation raises its own error.
DeviceControlRead ==
    /\ pc = "control_read"
    /\ dev' = [dev EXCEPT !.usb = Append(dev.usb,
                  Transfer("read", dev.req, 0, dev.mask, dev.ret, 0))]
    /\ \/ /\ pc' = "done"
          /\ UNCHANGED <<stack, outcome>>
       \/ Raise("Cannot get I/O port")
    /\ UNCHANGED <<op, args, p, e, r, w, it, flash, sr, trace,
                   codecVars, jtagVars, spi, g>>

\* control_write(REQUEST_TYPE_VENDOR, req, 0, mask, millivolts) of
\* _write_voltage().
DeviceControlWrite ==
    /\ pc = "control_write"
    /\ dev' = [dev EXCEPT !.usb = Append(dev.usb,
                  Transfer("write", dev.req, 0, dev.mask, 2, 0))]
    /\ pc' = "status"
    /\ UNCHANGED <<op, args, stack, p, e, r, w, it, flash, sr, trace, outcome,
                   codecVars, jtagVars, spi, g>>

\* if self._status() & ST_ERROR: raise
DeviceStatus ==
    /\ pc = "status"
    /\ dev' = [dev EXCEPT !.usb = Append(dev.usb,
                  Transfer("read", REQ_STATUS, 0, 0, 1, 0))]
    /\ \E status \in 0..7 :
          IF BitAnd(status, ST_ERROR) # 0
          THEN Raise("Cannot set I/O port(s) voltage")
          ELSE pc' = "done" /\ UNCHANGED <<stack, outcome>>
    /\ UNCHANGED <<op, args, p, e, r, w, it, flash, sr, trace,
                   codecVars, jtagVars, spi, g>>

----------------------------------------------------------------------------
(* EEPROM access *)

\* 1 << 16: the size of one EEPROM chip.
EEPROM_SIZE == 65536

\* chunk_size=0x1000 of _read_eeprom_raw() and _write_eeprom_raw().
RAW_CHUNK_SIZE == 4096

EepromOperations == {"read_eeprom", "write_eeprom"}

EepromKinds == {"fx2", "ice", "mem"}

\* Addresses and lengths around the chunk size and the chip size.
EepromAddrs == {0, 1, RAW_CHUNK_SIZE, EEPROM_SIZE - RAW_CHUNK_SIZE - 1,
                EEPROM_SIZE - 1}

EepromLengths == {0, 1, 2, RAW_CHUNK_SIZE - 1, RAW_CHUNK_SIZE,
                  RAW_CHUNK_SIZE + 1, 2 * RAW_CHUNK_SIZE + 1,
                  EEPROM_SIZE, EEPROM_SIZE + 1}

\* Mutant: the chunk is not cut at the end of the chip.
ChunkLengthUncut(chunk_addr, length) == length

\* chunk_length = min(chunk_addr + length, 1 << 16) - chunk_addr
ChunkLength(chunk_addr, length) ==
    Min(chunk_addr + length, EEPROM_SIZE) - chunk_addr

\* _adjust_eeprom_addr_for_kind(kind, addr)
AdjustEepromAddr ==
    /\ pc = "device"
    /\ op \in EepromOperations
    /\ IF args.kind = "fx2"
       THEN /\ dev' = [dev EXCEPT !.addr = EEPROM_SIZE * 0 + args.address,
                                  !.length = args.length, !.offset = 0]
            /\ pc' = "eeprom"
            /\ UNCHANGED <<stack, outcome>>
       ELSE IF args.kind = "ice"
       THEN /\ dev' = [dev EXCEPT !.addr = EEPROM_SIZE * 1 + args.address,
                                  !.length = args.length, !.offset = 0]
            /\ pc' = "eeprom"
            /\ UNCHANGED <<stack, outcome>>
       ELSE /\ Raise("ValueError: Unknown EEPROM kind")
            /\ dev' = dev
    /\ UNCHANGED <<op, args, p, e, r, w, it, flash, sr, trace,
                   codecVars, jtagVars, spi, g>>

\* One turn of the loop of read_eeprom()/write_eeprom() up to the call of the
\* raw transfer; dev.length is the length left (of the data left, for a
\* write) and dev.offset the place of the next byte in the caller's data.
EepromLoop ==
    /\ pc = "eeprom"
    /\ IF dev.length > 0
       THEN LET chunk_addr == dev.addr % EEPROM_SIZE
                chunk_length == ChunkLength(chunk_addr, dev.length)
            IN  /\ dev' = [dev EXCEPT !.chunk_addr = chunk_addr,
                                      !.chunk_length = chunk_length,
                                      !.raw_idx = dev.addr \div EEPROM_SIZE,
                                      !.raw_addr = chunk_addr,
                                      !.raw_length = chunk_length,
                                      !.raw_offset = dev.offset]
                /\ Call("eeprom_raw", "eeprom_advance")
       ELSE /\ pc' = "done"
            /\ UNCHANGED <<dev, stack>>
    /\ UNCHANGED <<op, args, p, e, r, w, it, flash, sr, trace, outcome,
                   codecVars, jtagVars, spi, g>>

\* One turn of the loop of _read_eeprom_raw()/_write_eeprom_raw(): one control
\* transfer of at most chunk_size bytes, or the return.
EepromRaw ==
    /\ pc = "eeprom_raw"
    /\ IF dev.raw_length > 0
       THEN LET chunk_length == Min(dev.raw_length, RAW_CHUNK_SIZE) IN
            /\ dev' = [dev EXCEPT
                  !.usb = Append(dev.usb,
                     Transfer(IF op = "read_eeprom" THEN "read" ELSE "write",
                              REQ_EEPROM, dev.raw_addr, dev.raw_idx,
                              chunk_length, dev.raw_offset)),
                  !.raw_addr = dev.raw_addr + chunk_length,
                  !.raw_length = dev.raw_length - chunk_length,
                  !.raw_offset = dev.raw_offset + chunk_length]
            /\ UNCHANGED <<pc, stack>>
       ELSE /\ Return
            /\ dev' = dev
    /\ UNCHANGED <<op, args, p, e, r, w, it, flash, sr, trace, outcome,
                   codecVars, jtagVars, spi, g>>

\* addr += chunk_length; length -= chunk_length (data = data[chunk_length:])
EepromAdvance ==
    /\ pc = "eeprom_advance"
    /\ dev' = [dev EXCEPT !.addr = dev.addr + dev.chunk_length,
                          !.length = dev.length - dev.chunk_length,
                          !.offset = dev.offset + dev.chunk_length]
    /\ pc' = "eeprom"
    /\ UNCHANGED <<op, args, stack, p, e, r, w, it, flash, sr, trace, outcome,
                   codecVars, jtagVars, spi, g>>

----------------------------------------------------------------------------
(* FPGA configuration *)

\* The 1024 of download_bitstream(): the bytes of bitstream one write carries.
BITSTREAM_CHUNK == 1024

\* len(b"\xff" * 16): the length of the default bitstream_id.
BITSTREAM_ID_LENGTH == 16

\* The bitstream lengths download_bitstream() is given: none, one byte, and
\* lengths just under, at and just over one, two and three chunks.
BitstreamLengths ==
    {0, 1, 1023, 1024, 1025, 2047, 2048, 2049, 3072}

\* len(bitstream[index * 1024:(index + 1) * 1024]): a slice is cut to the
\* bytes there are.
BitstreamChunk(index, length) ==
    Min((index + 1) * BITSTREAM_CHUNK, length)
        - Min(index * BITSTREAM_CHUNK, length)

\* download_bitstream(): index = 0
DownloadBitstream ==
    /\ pc = "device"
    /\ op = "download_bitstream"
    /\ dev' = [dev EXCEPT !.i = 0]
    /\ pc' = "download"
    /\ UNCHANGED <<op, args, stack, p, e, r, w, it, flash, sr, trace, outcome,
                   codecVars, jtagVars, spi, g>>

\* One turn of the loop of download_bitstream(): one REQ_FPGA_CFG write of the
\* chunk at index, after which the device either takes it (index += 1) or
\* stalls (usb1.USBErrorPipe, which nothing here catches); or the loop ends.
DownloadChunk ==
    /\ pc = "download"
    /\ IF dev.i * BITSTREAM_CHUNK < args.length
       THEN LET sent == Append(dev.usb,
                           Transfer("write", REQ_FPGA_CFG, 0, dev.i,
                                    BitstreamChunk(dev.i, args.length),
                                    dev.i * BITSTREAM_CHUNK))
            IN  \/ /\ dev' = [dev EXCEPT !.usb = sent, !.i = dev.i + 1]
                   /\ UNCHANGED <<pc, stack, outcome>>
                \/ /\ dev' = [dev EXCEPT !.usb = sent]
                   /\ Raise("USBErrorPipe")
       ELSE /\ pc' = "bitstream_id"
            /\ UNCHANGED <<dev, stack, outcome>>
    /\ UNCHANGED <<op, args, p, e, r, w, it, flash, sr, trace,
                   codecVars, jtagVars, spi, g>>

\* The REQ_BITSTREAM_ID write that ends download_bitstream(): the device takes
\* it, or stalls and the usb1.USBErrorPipe becomes a GlasgowDeviceError.
DownloadBitstreamId ==
    /\ pc = "bitstream_id"
    /\ dev' = [dev EXCEPT
          !.usb = Append(dev.usb,
                     Transfer("write", REQ_BITSTREAM_ID, 0, 0,
                              BITSTREAM_ID_LENGTH, 0))]
    /\ \/ /\ pc' = "done"
          /\ UNCHANGED <<stack, outcome>>
       \/ Raise("FPGA configuration failed")
    /\ UNCHANGED <<op, args, p, e, r, w, it, flash, sr, trace,
                   codecVars, jtagVars, spi, g>>

InitDevice ==
    /\ pc = "device"
    /\ stack = <<>>
    /\ p = NoProgram
    /\ e = NoErase
    /\ r = NoRead
    /\ w = NoWip
    /\ it = NoInteract
    /\ flash = [a \in 0..(FlashSize - 1) |-> Erased]
    /\ sr = 0
    /\ trace = <<>>
    /\ outcome = ""
    /\ c_in = <<>>
    /\ c_kind = ""
    /\ c_bits = <<>>
    /\ c_out = <<>>
    /\ lower = <<>>
    /\ jt = NoLocals
    /\ spi = [entered |-> 0, last |-> 0]
    /\ g = NoRegisters
    /\ dev = NoDevice
    /\ \/ /\ op \in DOMAIN PortOperations
          /\ \E spec \in PortSpecs : args = [NoArgs EXCEPT !.spec = spec]
       \/ /\ op \in EepromOperations
          /\ \E kind \in EepromKinds, addr \in EepromAddrs,
                length \in EepromLengths :
                args = [NoArgs EXCEPT !.kind = kind, !.address = addr,
                                      !.length = length]
       \/ /\ op = "download_bitstream"
          /\ \E length \in BitstreamLengths :
                args = [NoArgs EXCEPT !.length = length]

NextDevice ==
    \/ DevicePortOperation
    \/ SpecToMaskLength
    \/ SpecToMaskPort
    \/ DeviceControlRead
    \/ DeviceControlWrite
    \/ DeviceStatus
    \/ AdjustEepromAddr
    \/ EepromLoop
    \/ EepromRaw
    \/ EepromAdvance
    \/ DownloadBitstream
    \/ DownloadChunk
    \/ DownloadBitstreamId

\* The methods are sequential code: a step that can be taken is taken.
SpecDevice == InitDevice /\ [][NextDevice]_vars /\ WF_vars(NextDevice)

\* Whether a specification is refused: its length is not 1, or str(spec) has
\* a character that names no port.
NotOnePort(spec) ==
    \/ Len(spec.ports) # 1
    \/ \E k \in DOMAIN Str(spec) : Str(spec)[k] \notin {"A", "B"}

DeviceErrors ==
    {"Exactly one I/O port may be specified for this operation",
     "Unknown I/O port"}

\* C23: an operation that requires exactly one I/O port raises
\* GlasgowDeviceError when given a port specification whose length is not 1
\* or that names an unknown port, before any USB control transfer is issued.
C23_OnePortOrRaise ==
    /\ []((op \in OnePortOperations /\ NotOnePort(args.spec)) =>
             /\ dev.usb = <<>>
             /\ pc \in {"device", "iobuf_spec_to_mask", "iobuf_port", "raised"}
             /\ pc = "raised" => outcome \in DeviceErrors)
    /\ (op \in OnePortOperations /\ NotOnePort(args.spec)) ~> (pc = "raised")

\* get_alert("AB") has raised for the length without a transfer.
C23_Witness ==
    /\ op = "get_alert"
    /\ args.spec = [form |-> "str", ports |-> <<"A", "B">>]
    /\ pc = "raised"
    /\ outcome = "Exactly one I/O port may be specified for this operation"
    /\ dev.usb = <<>>

\* measure_voltage("C") has raised for the unknown port without a transfer.
C23_WitnessUnknown ==
    /\ op = "measure_voltage"
    /\ args.spec = [form |-> "str", ports |-> <<"C">>]
    /\ pc = "raised"
    /\ outcome = "Unknown I/O port"
    /\ dev.usb = <<>>

\* get_voltage("B") has made its transfer with mask IO_BUF_B.
C23_WitnessAccepted ==
    /\ op = "get_voltage"
    /\ args.spec = [form |-> "str", ports |-> <<"B">>]
    /\ pc = "done"
    /\ dev.usb = <<Transfer("read", REQ_IO_VOLT, 0, IO_BUF_B, 2, 0)>>

----------------------------------------------------------------------------
(* Properties of read_eeprom() and write_eeprom() *)

\* The bytes the first k transfers carry.
RECURSIVE Covered(_)
Covered(k) == IF k = 0 THEN 0 ELSE Covered(k - 1) + dev.usb[k].length

\* The linear address of a request: 0x10000 * k + addr.
LinearStart ==
    (IF args.kind = "fx2" THEN 0 ELSE EEPROM_SIZE) + args.address

\* C30: read_eeprom() and write_eeprom() map the request onto the linear
\* address 0x10000 * k + addr (ValueError for an unknown kind, before any
\* transfer) and issue transfers that are contiguous, ascending, cover exactly
\* length bytes, each go to chip (linear >> 16) at offset (linear mod
\* 0x10000), never cross a chip boundary and never exceed 0x1000 bytes.
C30_EepromTransfers ==
    /\ []((op \in EepromOperations /\ args.kind \notin {"fx2", "ice"}) =>
             /\ dev.usb = <<>>
             /\ pc \in {"device", "raised"}
             /\ pc = "raised" => outcome = "ValueError: Unknown EEPROM kind")
    /\ []((op \in EepromOperations /\ args.kind \in {"fx2", "ice"}) =>
             /\ \A k \in DOMAIN dev.usb :
                   LET linear == LinearStart + Covered(k - 1)
                       transfer == dev.usb[k]
                   IN  /\ transfer.req = REQ_EEPROM
                       /\ transfer.dir =
                             (IF op = "read_eeprom" THEN "read" ELSE "write")
                       /\ transfer.index = linear \div EEPROM_SIZE
                       /\ transfer.value = linear % EEPROM_SIZE
                       /\ transfer.offset = Covered(k - 1)
                       /\ transfer.length >= 1
                       /\ transfer.length <= RAW_CHUNK_SIZE
                       /\ transfer.value + transfer.length <= EEPROM_SIZE
             /\ Covered(Len(dev.usb)) <= args.length
             /\ pc # "raised"
             /\ pc = "done" => Covered(Len(dev.usb)) = args.length)
    /\ (op \in EepromOperations) ~> (pc \in {"done", "raised"})

\* read_eeprom("fx2", 0xFFFF, 0x10001) has completed: one byte from the end
\* of chip 0, then sixteen transfers of 0x1000 bytes from chip 1.
C30_Witness ==
    /\ op = "read_eeprom"
    /\ args.kind = "fx2"
    /\ args.address = EEPROM_SIZE - 1
    /\ args.length = EEPROM_SIZE + 1
    /\ pc = "done"
    /\ Len(dev.usb) = 17
    /\ dev.usb[1] = Transfer("read", REQ_EEPROM, EEPROM_SIZE - 1, 0, 1, 0)
    /\ dev.usb[2] = Transfer("read", REQ_EEPROM, 0, 1, RAW_CHUNK_SIZE, 1)
    /\ dev.usb[17].value = EEPROM_SIZE - RAW_CHUNK_SIZE

\* write_eeprom("ice", 1, data of 0x1001 bytes) has completed with two
\* transfers to chip 1.
C30_WitnessIce ==
    /\ op = "write_eeprom"
    /\ args.kind = "ice"
    /\ args.address = 1
    /\ args.length = RAW_CHUNK_SIZE + 1
    /\ pc = "done"
    /\ dev.usb = <<Transfer("write", REQ_EEPROM, 1, 1, RAW_CHUNK_SIZE, 0),
                   Transfer("write", REQ_EEPROM, RAW_CHUNK_SIZE + 1, 1, 1,
                            RAW_CHUNK_SIZE)>>

\* read_eeprom("mem", ...) has raised without a transfer.
C30_WitnessUnknownKind ==
    /\ op = "read_eeprom"
    /\ args.kind = "mem"
    /\ pc = "raised"
    /\ dev.usb = <<>>

----------------------------------------------------------------------------
(* Properties of download_bitstream() *)

\* The places in dev.usb of the writes of request req.
Writes(req) == {k \in DOMAIN dev.usb : dev.usb[k].req = req}

\* C31 for the chunks there are: download_bitstream() sends the bitstream as
\* consecutive chunks of at most 1024 bytes with indices 0, 1, 2, ...
\* ascending, and writes the bitstream ID at most once, only after all chunks
\* have been sent, exactly once when it completes; a rejected bitstream-ID
\* write is reported as "FPGA configuration failed".
C31_ChunksThenId ==
    /\ [](op = "download_bitstream" =>
             LET chunks == Writes(REQ_FPGA_CFG)
                 ids == Writes(REQ_BITSTREAM_ID)
             IN  /\ chunks \cup ids = DOMAIN dev.usb
                 /\ \A k \in chunks :
                       /\ chunks = 1..Cardinality(chunks)
                       /\ dev.usb[k].dir = "write"
                       /\ dev.usb[k].value = 0
                       /\ dev.usb[k].index = k - 1
                       /\ dev.usb[k].offset = Covered(k - 1)
                       /\ dev.usb[k].length >= 1
                       /\ dev.usb[k].length <= BITSTREAM_CHUNK
                       /\ k < Cardinality(chunks) =>
                             dev.usb[k].length = BITSTREAM_CHUNK
                 /\ Cardinality(ids) <= 1
                 /\ \A k \in ids :
                       /\ k = Len(dev.usb)
                       /\ Covered(k - 1) = args.length
                       /\ dev.usb[k] = Transfer("write", REQ_BITSTREAM_ID, 0, 0,
                                                BITSTREAM_ID_LENGTH, 0)
                       /\ pc \in {"done", "raised"}
                 /\ pc = "done" => ids # {}
                 /\ pc = "raised" =>
                       IF ids # {}
                       THEN outcome = "FPGA configuration failed"
                       ELSE outcome = "USBErrorPipe")
    /\ (op = "download_bitstream") ~> (pc \in {"done", "raised"})

\* C31: download_bitstream() sends the bitstream as consecutive chunks of at
\* most 1024 bytes with indices 0, 1, 2, ... ascending, chunk 0 (which resets
\* the FPGA) always first, and writes the bitstream ID (which starts the FPGA)
\* exactly once, only after all chunks have been sent; a rejected bitstream-ID
\* write is reported as "FPGA configuration failed".
C31_DownloadBitstream ==
    /\ C31_ChunksThenId
    /\ [](op = "download_bitstream" /\ dev.usb # <<>> =>
             dev.usb[1] = Transfer("write", REQ_FPGA_CFG, 0, 0,
                                   Min(BITSTREAM_CHUNK, args.length), 0))

\* download_bitstream() of 2049 bytes has completed: chunks 0 and 1 of 1024
\* bytes, chunk 2 of one byte, then the bitstream ID.
C31_Witness ==
    /\ op = "download_bitstream"
    /\ args.length = 2049
    /\ pc = "done"
    /\ Len(dev.usb) = 4
    /\ dev.usb[1] = Transfer("write", REQ_FPGA_CFG, 0, 0, 1024, 0)
    /\ dev.usb[2] = Transfer("write", REQ_FPGA_CFG, 0, 1, 1024, 1024)
    /\ dev.usb[3] = Transfer("write", REQ_FPGA_CFG, 0, 2, 1, 2048)
    /\ dev.usb[4].req = REQ_BITSTREAM_ID

\* The device has rejected the bitstream ID after both chunks of a bitstream
\* of 2048 bytes.
C31_WitnessRejected ==
    /\ op = "download_bitstream"
    /\ args.length = 2048
    /\ pc = "raised"
    /\ outcome = "FPGA configuration failed"
    /\ Len(dev.usb) = 3
    /\ dev.usb[2] = Transfer("write", REQ_FPGA_CFG, 0, 1, 1024, 1024)
    /\ dev.usb[3].req = REQ_BITSTREAM_ID

\* download_bitstream() of an empty bitstream has completed: the bitstream ID
\* was written and no chunk 0 before it.
C31_WitnessEmpty ==
    /\ op = "download_bitstream"
    /\ args.length = 0
    /\ pc = "done"
    /\ Len(dev.usb) = 1
    /\ dev.usb[1].req = REQ_BITSTREAM_ID

====
